---- MODULE Spec2Model ----
(***************************************************************************)
(* A model of IGitt's GitHubRepository (labels, hooks, commits, search,    *)
(* addressing, data snapshot, file creation), GitLabCommit (statuses,      *)
(* patches, comments), the access layer and the merge request's state,     *)
(* each operation translated from its source and run against a model of    *)
(* the hosting service it talks to.                                        *)
(***************************************************************************)
EXTENDS Integers, Sequences, FiniteSets, TLC

VARIABLES
    addressing,  \* "name" or "id": how GitHubRepository.__init__ was given the repository
    data,        \* the repository object's cached data snapshot (its payload kind)
    labels,      \* the hosting service's label names of the repository
    hooks,       \* the hosting service's hook records of the repository, in listing order
    nextHookId,  \* the id the hosting service gives the next hook record
    nCommits,    \* the number of commits the repository holds on the hosting service
    nOpen,       \* the numbers of open issues and of open merge requests it holds
    gen,         \* the generator object a search_mrs / search_issues call handed back
    statuses,    \* GitLab's status records of the commit, in listing order
    repo,        \* the GitHubRepository object's _repository and _url
    commit,      \* the GitLabCommit object's _sha and _branch, and whether its data is loaded
    diff,        \* GitLab's diff entries of the commit, in listing order
    remote,      \* the hosting service's resources by URL: version and pages of items
    cache,       \* the access layer's response cache (_RESPONSES), by request URL
    quota,       \* the rate quota the hosting service has left for the token
    mr,          \* the merge request: its state on the hosting service, the object's data
    procs,       \* the callers running an operation step by step: position and locals
    reqs,        \* the HTTP requests the last call issued, in order
    call         \* the last call: operation, argument, what it raised, what it returned

vars ==
    <<addressing, data, labels, hooks, nextHookId, nCommits, nOpen, gen, statuses, repo,
      commit, diff, remote, cache, quota, mr, procs, reqs, call>>

----------------------------------------------------------------------------
(* Bounds of the model *)

MaxHooks == 2
MaxHookId == 3
MaxCommits == 1
MaxStatuses == 5
MaxItems == 2
MaxPages == 3
MaxVersion == 2
MaxQuota == 4
MaxTransitions == 3

----------------------------------------------------------------------------
(* Values *)

None == "None"
NoUrl == "NoUrl"

\* Label names are texts, sequences of characters; "?" starts the query part
\* of a URL and "#" starts its fragment.
LabelNames == {<<"a">>, <<"b">>, <<"a", "?">>, <<"#", "b">>}

Colors == {<<"#", "f">>, <<"f">>, <<"#", "#", "f">>}

HookUrls == {"u1", "u2"}

Secrets == {None, "s"}

\* The status an HTTP exchange ends with: 200 when the hosting service answers
\* the request from its state, otherwise the failure it ends with.
Statuses == {200, 404, 409}

Ok(st) == st \in 200..299

\* No merge request object is in use.
NoMr == <<>>

\* No caller is running an operation step by step.
NoProcs == <<>>

----------------------------------------------------------------------------
(* Requests and calls *)

\* A request and the status its exchange ended with.
Req(method, res, tail, body, status) ==
    [method |-> method, res |-> res, tail |-> tail, body |-> body, status |-> status]

\* outage: an exchange of the call ended in a failure that the repository's
\* state on the hosting service does not account for (network, auth, quota).
\* seq: the parity of the number of calls made, which tells a call from the next.
Called(op, arg, raised, status, ret) ==
    [op |-> op, arg |-> arg, raised |-> raised, status |-> status, ret |-> ret,
     outage |-> FALSE, seq |-> 1 - call.seq]

\* The step is a call of op.
IsCall(op) == call'.op = op /\ call'.seq # call.seq

Methods(rs) == {rs[i].method : i \in DOMAIN rs}

\* _fetch: a non-2xx answer raises RuntimeError(body, status).
RuntimeErrorOf(op, arg, st) ==
    [Called(op, arg, "RuntimeError", st, None) EXCEPT !.outage = TRUE]

\* The hosting service answers 404 for a resource it does not hold.
NotFoundOf(op, arg) == Called(op, arg, "RuntimeError", 404, None)

----------------------------------------------------------------------------
(* Texts *)

RECURSIVE lstrip(_, _)
lstrip(s, ch) ==
    IF s # <<>> /\ Head(s) = ch THEN lstrip(Tail(s), ch) ELSE s

\* The part of a text appended to a URL path that the hosting service reads
\* as path: what precedes the first "?" (query) or "#" (fragment).
RECURSIVE PathPart(_)
PathPart(s) ==
    IF s = <<>> \/ Head(s) \in {"?", "#"} THEN <<>>
    ELSE <<Head(s)>> \o PathPart(Tail(s))

----------------------------------------------------------------------------
(* GitHubRepository: labels *)

\* get_labels: the names of the listed labels.
get_labels(listed) == {label : label \in listed}

\* create_label without its pre-check.
create_label_exists_never(name, listed) == FALSE

\* create_label: name in self.get_labels()
create_label_exists(name, listed) == name \in get_labels(listed)

create_label_body(name, color) == [name |-> name, color |-> lstrip(color, "#")]

\* delete_label without its pre-check.
delete_label_missing_never(name, listed) == FALSE

\* delete_label: name not in self.get_labels()
delete_label_missing(name, listed) == name \notin get_labels(listed)

\* What follows '/labels/' in the URL of delete_label's DELETE request.
delete_label_tail(name) == name

\* The label a DELETE on <repository>/labels/<tail> names to the hosting service.
LabelAt(tail) == PathPart(tail)

GetLabels ==
    \E st \in Statuses :
        /\ reqs' = <<Req("GET", "labels", <<>>, None, st)>>
        /\ call' = IF Ok(st) THEN Called("get_labels", None, None, st, get_labels(labels))
                   ELSE RuntimeErrorOf("get_labels", None, st)

CreateLabel(name, color) ==
    \E st1 \in Statuses :
        LET listing == Req("GET", "labels", <<>>, None, st1)
        IN  IF ~Ok(st1) THEN
                /\ reqs' = <<listing>>
                /\ call' = RuntimeErrorOf("create_label", name, st1)
                /\ UNCHANGED <<labels, data>>
            ELSE IF create_label_exists(name, labels) THEN
                /\ reqs' = <<listing>>
                /\ call' = Called("create_label", name, "ElementAlreadyExistsError", st1, None)
                /\ UNCHANGED <<labels, data>>
            ELSE \E st2 \in Statuses :
                LET post == Req("POST", "labels", <<>>, create_label_body(name, color), st2)
                IN  /\ reqs' = <<listing, post>>
                    /\ IF ~Ok(st2) THEN
                           /\ call' = RuntimeErrorOf("create_label", name, st2)
                           /\ UNCHANGED <<labels, data>>
                       ELSE
                           /\ call' = Called("create_label", name, None, st2, None)
                           /\ labels' = labels \cup {name}
                           /\ data' = "label"

DeleteLabel(name) ==
    \E st1 \in Statuses :
        LET listing == Req("GET", "labels", <<>>, None, st1)
            tail == delete_label_tail(name)
            target == LabelAt(tail)
        IN  IF ~Ok(st1) THEN
                /\ reqs' = <<listing>>
                /\ call' = RuntimeErrorOf("delete_label", name, st1)
                /\ UNCHANGED labels
            ELSE IF delete_label_missing(name, labels) THEN
                /\ reqs' = <<listing>>
                /\ call' = Called("delete_label", name, "ElementDoesntExistError", st1, None)
                /\ UNCHANGED labels
            ELSE \E st2 \in Statuses :
                IF ~Ok(st2) THEN
                    /\ reqs' = <<listing, Req("DELETE", "labels", tail, None, st2)>>
                    /\ call' = RuntimeErrorOf("delete_label", name, st2)
                    /\ UNCHANGED labels
                ELSE IF target \notin labels THEN
                    /\ reqs' = <<listing, Req("DELETE", "labels", tail, None, 404)>>
                    /\ call' = NotFoundOf("delete_label", name)
                    /\ UNCHANGED labels
                ELSE
                    /\ reqs' = <<listing, Req("DELETE", "labels", tail, None, st2)>>
                    /\ call' = Called("delete_label", name, None, st2, None)
                    /\ labels' = labels \ {target}

GetLabelsCall ==
    /\ GetLabels
    /\ UNCHANGED <<mr, procs, addressing, data, labels, hooks, nextHookId, nCommits, nOpen, gen,
                   statuses, repo, commit, diff, remote, cache, quota>>

CreateLabelCall(names) ==
    /\ \E name \in names, color \in Colors : CreateLabel(name, color)
    /\ UNCHANGED <<mr, procs, addressing, hooks, nextHookId, nCommits, nOpen, gen, statuses, repo,
                   commit, diff, remote, cache, quota>>

DeleteLabelCall(names) ==
    /\ \E name \in names : DeleteLabel(name)
    /\ UNCHANGED <<mr, procs, addressing, data, hooks, nextHookId, nCommits, nOpen, gen, statuses,
                   repo, commit, diff, remote, cache, quota>>

----------------------------------------------------------------------------
(* GitHubRepository: hooks *)

WebhookEvents ==
    {"PUSH", "ISSUE", "MERGE_REQUEST", "ISSUE_COMMENT", "COMMIT_COMMENT",
     "MERGE_REQUEST_COMMENT"}

\* The table with ISSUE given the name of PUSH.
GH_WEBHOOK_TRANSLATION_merged ==
    [e \in WebhookEvents |->
        CASE e = "PUSH" -> "push"
          [] e = "ISSUE" -> "push"
          [] e = "MERGE_REQUEST" -> "pull_request"
          [] e = "COMMIT_COMMENT" -> "commit_comment"
          [] e = "MERGE_REQUEST_COMMENT" -> "issue_comment"
          [] e = "ISSUE_COMMENT" -> "issue_comment"]

GH_WEBHOOK_TRANSLATION ==
    [e \in WebhookEvents |->
        CASE e = "PUSH" -> "push"
          [] e = "ISSUE" -> "issues"
          [] e = "MERGE_REQUEST" -> "pull_request"
          [] e = "COMMIT_COMMENT" -> "commit_comment"
          [] e = "MERGE_REQUEST_COMMENT" -> "issue_comment"
          [] e = "ISSUE_COMMENT" -> "issue_comment"]

\* The events arguments the model calls register_hook with; {} stands for the
\* default None as well, which `if events:` treats alike.
EventSets == {{}, {"PUSH", "ISSUE_COMMENT", "MERGE_REQUEST_COMMENT"}}

\* A hook record of the hosting service; url is NoUrl when its config has none.
Hook(id, url, secret, events) ==
    [id |-> id, url |-> url, secret |-> secret, events |-> events]

\* hooks: the config urls of the listed hooks, None discarded.
hooks_urls(listed) == {listed[i].url : i \in DOMAIN listed} \ {NoUrl}

\* register_hook without its pre-check.
register_hook_known_never(url, listed) == FALSE

\* register_hook: url in self.hooks
register_hook_known(url, listed) == url \in hooks_urls(listed)

\* register_hook: the events of the POST body.
register_hook_events(events) ==
    LET reg_events == {GH_WEBHOOK_TRANSLATION[e] : e \in events}
    IN  IF reg_events # {} THEN reg_events ELSE {"*"}

register_hook_body(url, secret, events) ==
    [url |-> url, secret |-> secret, events |-> register_hook_events(events)]

\* delete_hook deleting the first matching hook only.
delete_hook_targets_first(listed, url) ==
    LET all == SelectSeq(listed, LAMBDA h : h.url = url)
    IN  IF all = <<>> THEN <<>> ELSE <<Head(all)>>

\* delete_hook: the listed hooks whose config url is url, in listing order.
delete_hook_targets(listed, url) == SelectSeq(listed, LAMBDA h : h.url = url)

Ids(hs) == {hs[i].id : i \in DOMAIN hs}

CountUrl(listed, url) == Cardinality({i \in DOMAIN listed : listed[i].url = url})

HooksProperty ==
    \E st \in Statuses :
        /\ reqs' = <<Req("GET", "hooks", None, None, st)>>
        /\ call' = IF Ok(st) THEN Called("hooks", None, None, st, hooks_urls(hooks))
                   ELSE RuntimeErrorOf("hooks", None, st)

RegisterHook(url, secret, events) ==
    \E st1 \in Statuses :
        LET arg == [url |-> url, secret |-> secret, events |-> events]
            listing == Req("GET", "hooks", None, None, st1)
            body == register_hook_body(url, secret, events)
        IN  IF ~Ok(st1) THEN
                /\ reqs' = <<listing>>
                /\ call' = RuntimeErrorOf("register_hook", arg, st1)
                /\ UNCHANGED <<hooks, nextHookId, data>>
            ELSE IF register_hook_known(url, hooks) THEN
                /\ reqs' = <<listing>>
                /\ call' = Called("register_hook", arg, None, st1, None)
                /\ UNCHANGED <<hooks, nextHookId, data>>
            ELSE \E st2 \in Statuses :
                /\ reqs' = <<listing, Req("POST", "hooks", None, body, st2)>>
                /\ IF ~Ok(st2) THEN
                       /\ call' = RuntimeErrorOf("register_hook", arg, st2)
                       /\ UNCHANGED <<hooks, nextHookId, data>>
                   ELSE
                       /\ Len(hooks) < MaxHooks
                       /\ nextHookId <= MaxHookId
                       /\ call' = Called("register_hook", arg, None, st2, None)
                       /\ hooks' = Append(hooks, Hook(nextHookId, body.url, body.secret,
                                                      body.events))
                       /\ nextHookId' = nextHookId + 1
                       /\ data' = "hook"

\* delete_hook: one DELETE per target, in listing order; the failAt-th of them
\* (none when failAt is 0) ends with the non-2xx status st2.
DeleteHook(url) ==
    \E st1 \in Statuses :
        LET listing == Req("GET", "hooks", None, None, st1)
            targets == delete_hook_targets(hooks, url)
        IN  IF ~Ok(st1) THEN
                /\ reqs' = <<listing>>
                /\ call' = RuntimeErrorOf("delete_hook", url, st1)
                /\ UNCHANGED hooks
            ELSE \E failAt \in 0..Len(targets) :
                \E st2 \in (IF failAt = 0 THEN {204} ELSE {st \in Statuses : ~Ok(st)}) :
                    LET n == IF failAt = 0 THEN Len(targets) ELSE failAt
                        dels == [i \in 1..n |->
                                    Req("DELETE", "hooks", targets[i].id, None,
                                        IF i = failAt THEN st2 ELSE 204)]
                        gone == {targets[i].id :
                                    i \in 1..(IF failAt = 0 THEN n ELSE failAt - 1)}
                    IN  /\ reqs' = <<listing>> \o dels
                        /\ call' = IF failAt = 0
                                   THEN Called("delete_hook", url, None, st2, None)
                                   ELSE RuntimeErrorOf("delete_hook", url, st2)
                        /\ hooks' = SelectSeq(hooks, LAMBDA h : h.id \notin gone)

HooksCall ==
    /\ HooksProperty
    /\ UNCHANGED <<mr, procs, addressing, data, labels, hooks, nextHookId, nCommits, nOpen, gen,
                   statuses, repo, commit, diff, remote, cache, quota>>

RegisterHookCall(urls, secrets, eventsets) ==
    /\ \E url \in urls, secret \in secrets, events \in eventsets :
           RegisterHook(url, secret, events)
    /\ UNCHANGED <<mr, procs, addressing, labels, nCommits, nOpen, gen, statuses, repo, commit, diff,
                   remote, cache, quota>>

DeleteHookCall(urls) ==
    /\ \E url \in urls : DeleteHook(url)
    /\ UNCHANGED <<mr, procs, addressing, data, labels, nextHookId, nCommits, nOpen, gen, statuses,
                   repo, commit, diff, remote, cache, quota>>

\* Another client of the hosting service adds a hook record to the repository.
ForeignHook ==
    /\ Len(hooks) < MaxHooks
    /\ nextHookId <= MaxHookId
    /\ \E url \in HookUrls \cup {NoUrl} :
           hooks' = Append(hooks, Hook(nextHookId, url, None, {"*"}))
    /\ nextHookId' = nextHookId + 1
    /\ UNCHANGED <<mr, procs, addressing, data, labels, nCommits, nOpen, gen, statuses, repo, commit,
                   diff, remote, cache, quota, reqs, call>>

----------------------------------------------------------------------------
(* GitHubRepository: the data snapshot, full_name and commits *)

\* data['full_name'] of a loaded snapshot: the payload of a label or of a hook,
\* which create_label and register_hook store, has no such key.
data_has_full_name(d) == d = "repo"

\* commits converting every failure to an empty set.
commits_is_empty_repository_any(status) == TRUE

\* commits: ex.args[1] == 409
commits_is_empty_repository(status) == status = 409

Shas(n) == 1..n

\* The call ends as commits' except clause ends it for a RuntimeError of
\* status st.
CommitsExcept(st, outage) ==
    IF commits_is_empty_repository(st)
    THEN [Called("commits", None, None, st, {}) EXCEPT !.outage = outage]
    ELSE [Called("commits", None, "RuntimeError", st, None) EXCEPT !.outage = outage]

Commits ==
    \E st1 \in Statuses :
        IF ~Ok(st1) THEN
            /\ reqs' = <<Req("GET", "commits", None, None, st1)>>
            /\ call' = CommitsExcept(st1, TRUE)
            /\ UNCHANGED data
        ELSE IF nCommits = 0 THEN
            \* Repository is empty. GitHub returns 409.
            /\ reqs' = <<Req("GET", "commits", None, None, 409)>>
            /\ call' = CommitsExcept(409, FALSE)
            /\ UNCHANGED data
        ELSE IF addressing = "name" \/ data_has_full_name(data) THEN
            /\ reqs' = <<Req("GET", "commits", None, None, st1)>>
            /\ call' = Called("commits", None, None, st1, Shas(nCommits))
            /\ UNCHANGED data
        ELSE IF data = "unloaded" THEN
            \* full_name of the first commit loads the snapshot, inside the try.
            \E st2 \in Statuses :
                /\ reqs' = <<Req("GET", "commits", None, None, st1),
                             Req("GET", "repo", None, None, st2)>>
                /\ IF Ok(st2) THEN
                       /\ call' = Called("commits", None, None, st2, Shas(nCommits))
                       /\ data' = "repo"
                   ELSE
                       /\ call' = CommitsExcept(st2, TRUE)
                       /\ UNCHANGED data
        ELSE
            /\ reqs' = <<Req("GET", "commits", None, None, st1)>>
            /\ call' = Called("commits", None, "KeyError", st1, None)
            /\ UNCHANGED data

CommitsCall ==
    /\ Commits
    /\ UNCHANGED <<mr, procs, addressing, labels, hooks, nextHookId, nCommits, nOpen, gen, statuses,
                   repo, commit, diff, remote, cache, quota>>

\* merge_requests: one GitHubMergeRequest per listed pull request, each built
\* with self.full_name.
MergeRequests ==
    \E st1 \in Statuses :
        IF ~Ok(st1) THEN
            /\ reqs' = <<Req("GET", "pulls", None, None, st1)>>
            /\ call' = RuntimeErrorOf("merge_requests", None, st1)
            /\ UNCHANGED data
        ELSE IF nOpen["pr"] = 0 \/ addressing = "name" \/ data_has_full_name(data) THEN
            /\ reqs' = <<Req("GET", "pulls", None, None, st1)>>
            /\ call' = Called("merge_requests", None, None, st1, 1..nOpen["pr"])
            /\ UNCHANGED data
        ELSE IF data = "unloaded" THEN
            \E st2 \in Statuses :
                /\ reqs' = <<Req("GET", "pulls", None, None, st1),
                             Req("GET", "repo", None, None, st2)>>
                /\ IF Ok(st2) THEN
                       /\ call' = Called("merge_requests", None, None, st2, 1..nOpen["pr"])
                       /\ data' = "repo"
                   ELSE
                       /\ call' = RuntimeErrorOf("merge_requests", None, st2)
                       /\ UNCHANGED data
        ELSE
            /\ reqs' = <<Req("GET", "pulls", None, None, st1)>>
            /\ call' = Called("merge_requests", None, "KeyError", st1, None)
            /\ UNCHANGED data

MergeRequestsCall ==
    /\ MergeRequests
    /\ UNCHANGED <<mr, procs, addressing, labels, hooks, nextHookId, nCommits, nOpen, gen, statuses,
                   repo, commit, diff, remote, cache, quota>>

----------------------------------------------------------------------------
(* GitHubRepository: __init__ and full_name *)

Digits == {"0", "7"}

RECURSIVE rstrip(_, _)
rstrip(s, ch) ==
    IF s # <<>> /\ s[Len(s)] = ch THEN rstrip(SubSeq(s, 1, Len(s) - 1), ch) ELSE s

\* int(repository) raises ValueError: int reads a text of decimal digits,
\* blanks around them set aside.
int_raises(s) ==
    LET t == rstrip(lstrip(s, " "), " ")
    IN  t = <<>> \/ \E i \in DOMAIN t : t[i] \notin Digits

\* '{}'.format(int(repository)): the decimal text of the number read.
int_text(s) ==
    LET t == lstrip(rstrip(lstrip(s, " "), " "), "0")
    IN  IF t = <<>> THEN <<"0">> ELSE t

\* __init__ taking every argument for a number.
repository_init_flat(repository) ==
    [repository |-> None, url |-> <<"/repositories/", int_text(repository)>>]

\* __init__: the object's _repository and _url.
repository_init(repository) ==
    IF int_raises(repository)
    THEN [repository |-> repository, url |-> <<"/repos/", repository>>]
    ELSE [repository |-> None, url |-> <<"/repositories/", int_text(repository)>>]

\* The repository on the hosting service: its full name and its identifier.
ServiceFullName == <<"o", "/", "n">>

ServiceId == <<"7">>

ServiceUrls == {<<"/repos/", ServiceFullName>>, <<"/repositories/", ServiceId>>}

\* The constructor arguments of the model.
RepoArgs ==
    {ServiceFullName, <<"7">>, <<"0", "7">>, <<" ", "7">>, <<"o", "/", "7">>}

\* Python's truth value of self._repository.
Truthy(x) == x # None /\ x # <<>>

\* A new repository object takes the place of the model's one.
Construct(repository) ==
    /\ repo' = repository_init(repository)
    /\ addressing' = IF repo'.repository = None THEN "id" ELSE "name"
    /\ data' = "unloaded"
    /\ reqs' = <<>>
    /\ call' = Called("__init__", repository, None, 200, None)

\* full_name: self._repository or self.data['full_name']
FullName ==
    IF Truthy(repo.repository) THEN
        /\ reqs' = <<>>
        /\ call' = Called("full_name", None, None, 200, repo.repository)
        /\ UNCHANGED data
    ELSE IF data = "unloaded" THEN
        \E st \in Statuses :
            IF ~Ok(st) THEN
                /\ reqs' = <<Req("GET", "repo", repo.url, None, st)>>
                /\ call' = RuntimeErrorOf("full_name", None, st)
                /\ UNCHANGED data
            ELSE IF repo.url \notin ServiceUrls THEN
                /\ reqs' = <<Req("GET", "repo", repo.url, None, 404)>>
                /\ call' = NotFoundOf("full_name", None)
                /\ UNCHANGED data
            ELSE
                /\ reqs' = <<Req("GET", "repo", repo.url, None, st)>>
                /\ call' = Called("full_name", None, None, st, ServiceFullName)
                /\ data' = "repo"
    ELSE IF data_has_full_name(data) THEN
        /\ reqs' = <<>>
        /\ call' = Called("full_name", None, None, 200, ServiceFullName)
        /\ UNCHANGED data
    ELSE
        /\ reqs' = <<>>
        /\ call' = Called("full_name", None, "KeyError", 200, None)
        /\ UNCHANGED data

ConstructCall(args) ==
    /\ \E repository \in args : Construct(repository)
    /\ UNCHANGED <<mr, procs, labels, hooks, nextHookId, nCommits, nOpen, gen, statuses, commit, diff,
                   remote, cache, quota>>

FullNameCall ==
    /\ FullName
    /\ UNCHANGED <<mr, procs, addressing, labels, hooks, nextHookId, nCommits, nOpen, gen, statuses,
                   repo, commit, diff, remote, cache, quota>>

----------------------------------------------------------------------------
(* GitHubRepository: identifier and clone_url *)

\* The token's value and the clone URL in the repository's payload, in pieces.
TokenValue == "t"

ServiceCloneUrl == <<"https://", "github.com", "/">> \o ServiceFullName \o <<".git">>

\* str.replace(old, new, 1) on a text in pieces: the first old gives way to new.
RECURSIVE replace_first(_, _, _)
replace_first(s, old, new) ==
    IF s = <<>> THEN <<>>
    ELSE IF Head(s) = old THEN new \o Tail(s)
    ELSE <<Head(s)>> \o replace_first(Tail(s), old, new)

\* The keys of a loaded snapshot that the properties read: the payload of a
\* label or of a hook has an id of its own, and no clone_url.
data_has_key(d, key) ==
    IF d = "repo" THEN key \in {"id", "full_name", "clone_url"} ELSE key = "id"

\* data[key] of a loaded snapshot; the id of a label or hook payload is that
\* record's own, written here as the payload's kind.
data_value(d, key) ==
    IF d # "repo" THEN <<d>>
    ELSE IF key = "id" THEN ServiceId
    ELSE IF key = "full_name" THEN ServiceFullName
    ELSE ServiceCloneUrl

\* clone_url: self.data['clone_url'].replace('github.com', token + '@github.com', 1)
clone_url(value) == replace_first(value, "github.com", <<TokenValue, "@", "github.com">>)

\* A property that reads self.data[key]: the snapshot is loaded from the
\* object's URL on first access and the cached one is read afterwards.
DataProperty(op, key) ==
    LET Result(value) == IF op = "clone_url" THEN clone_url(value) ELSE value IN
    IF data = "unloaded" THEN
        \E st \in Statuses :
            IF ~Ok(st) THEN
                /\ reqs' = <<Req("GET", "repo", repo.url, None, st)>>
                /\ call' = RuntimeErrorOf(op, None, st)
                /\ UNCHANGED data
            ELSE IF repo.url \notin ServiceUrls THEN
                /\ reqs' = <<Req("GET", "repo", repo.url, None, 404)>>
                /\ call' = NotFoundOf(op, None)
                /\ UNCHANGED data
            ELSE
                /\ reqs' = <<Req("GET", "repo", repo.url, None, st)>>
                /\ call' = Called(op, None, None, st, Result(data_value("repo", key)))
                /\ data' = "repo"
    ELSE IF data_has_key(data, key) THEN
        /\ reqs' = <<>>
        /\ call' = Called(op, None, None, 200, Result(data_value(data, key)))
        /\ UNCHANGED data
    ELSE
        /\ reqs' = <<>>
        /\ call' = Called(op, None, "KeyError", 200, None)
        /\ UNCHANGED data

\* identifier: self.data['id']
IdentifierCall ==
    /\ DataProperty("identifier", "id")
    /\ UNCHANGED <<mr, procs, addressing, labels, hooks, nextHookId, nCommits, nOpen, gen,
                   statuses, repo, commit, diff, remote, cache, quota>>

CloneUrlCall ==
    /\ DataProperty("clone_url", "clone_url")
    /\ UNCHANGED <<mr, procs, addressing, labels, hooks, nextHookId, nCommits, nOpen, gen,
                   statuses, repo, commit, diff, remote, cache, quota>>

----------------------------------------------------------------------------
(* GitHubRepository: top_level_org and create_file *)

\* s.split(sep, maxsplit=1)[0]: the text before the first sep.
RECURSIVE split_first(_, _)
split_first(s, sep) ==
    IF s = <<>> \/ Head(s) = sep THEN <<>>
    ELSE <<Head(s)>> \o split_first(Tail(s), sep)

\* b64encode(content.encode()).decode('utf-8')
b64encode(content) == <<"b64", content>>

\* GitHubContent.__init__: the content object's _repository and _url.
GitHubContent(repository, path) ==
    [repository |-> repository, url |-> <<"/repos/", repository, "/contents/", path>>]

Paths == {"f1", "f2"}

\* top_level_org: the organization named by the part of self._repository
\* before its first '/'; None has no split.
TopLevelOrg ==
    /\ reqs' = <<>>
    /\ call' = IF repo.repository = None
               THEN Called("top_level_org", None, "AttributeError", 200, None)
               ELSE Called("top_level_org", None, None, 200,
                           split_first(repo.repository, "/"))

\* create_file: PUT the file under self._url, then build the content object
\* from self._repository; '/repos/' + None raises TypeError after the file
\* has been created.
CreateFile(path, content) ==
    \E st \in Statuses :
        LET body == [path |-> path, message |-> "m", content |-> b64encode(content),
                     branch |-> None]
            sent == IF Ok(st) /\ repo.url \notin ServiceUrls THEN 404 ELSE st
        IN  /\ reqs' = <<Req("PUT", "contents", <<repo.url, path>>, body, sent)>>
            /\ call' = IF ~Ok(st) THEN RuntimeErrorOf("create_file", path, st)
                       ELSE IF sent = 404 THEN NotFoundOf("create_file", path)
                       ELSE IF repo.repository = None
                       THEN Called("create_file", path, "TypeError", st, None)
                       ELSE Called("create_file", path, None, st,
                                   GitHubContent(repo.repository, path))

TopLevelOrgCall ==
    /\ TopLevelOrg
    /\ UNCHANGED <<mr, procs, addressing, data, labels, hooks, nextHookId, nCommits, nOpen,
                   gen, statuses, repo, commit, diff, remote, cache, quota>>

CreateFileCall ==
    /\ \E path \in Paths : CreateFile(path, "c")
    /\ UNCHANGED <<mr, procs, addressing, data, labels, hooks, nextHookId, nCommits, nOpen,
                   gen, statuses, repo, commit, diff, remote, cache, quota>>

----------------------------------------------------------------------------
(* GitHubRepository: _search, search_mrs and search_issues *)

\* A date filter left at its default ''.
NoDate == 0

DateArgs == {NoDate, 1}

Filters == [created_after : DateArgs, created_before : DateArgs,
            updated_after : DateArgs, updated_before : DateArgs]

\* _search: (created_after and created_before) or (updated_after and updated_before)
search_conflict(f) ==
    \/ (f.created_after # NoDate /\ f.created_before # NoDate)
    \/ (f.updated_after # NoDate /\ f.updated_before # NoDate)

\* _search: the query, its created and updated terms as <<operator, date>>.
search_query(issue_type, f) ==
    [type |-> issue_type,
     created |-> IF f.created_after # NoDate THEN <<">=", f.created_after>>
                 ELSE IF f.created_before # NoDate THEN <<"<", f.created_before>>
                 ELSE <<>>,
     updated |-> IF f.updated_after # NoDate THEN <<">=", f.updated_after>>
                 ELSE IF f.updated_before # NoDate THEN <<"<", f.updated_before>>
                 ELSE <<>>]

\* The items of a search response: the payloads of the open issues or pull
\* requests, by number.
Items(n) == [i \in 1..n |-> [number |-> i]]

\* search_mrs / search_issues: the entity built for an item, get_mr or
\* get_issue with self.full_name and the item's number, then its data set to
\* the item.
search_entity(full_name, item_data) ==
    [repository |-> full_name, number |-> item_data.number, data |-> item_data]

\* search_mrs / search_issues are generator functions: the call runs none of
\* the body and hands back a generator object.
Search(op, issue_type, f) ==
    /\ gen' = [state |-> "created", op |-> op, type |-> issue_type, filters |-> f,
               items |-> <<>>]
    /\ reqs' = <<>>
    /\ call' = Called(op, f, None, 200, "generator")

\* The first next() on the generator: the body up to its first yield, _search
\* included.
GenStart ==
    /\ gen.state = "created"
    /\ IF addressing = "id" THEN
           \* ' repo:' + self._repository with self._repository None
           /\ reqs' = <<>>
           /\ call' = Called("next", gen.filters, "TypeError", 200, None)
           /\ gen' = [gen EXCEPT !.state = "closed"]
       ELSE IF search_conflict(gen.filters) THEN
           /\ reqs' = <<>>
           /\ call' = Called("next", gen.filters, "RuntimeError", 200, None)
           /\ gen' = [gen EXCEPT !.state = "closed"]
       ELSE \E st \in Statuses :
           /\ reqs' = <<Req("GET", "search/issues", None,
                            search_query(gen.type, gen.filters), st)>>
           /\ IF ~Ok(st) THEN
                  /\ call' = RuntimeErrorOf("next", gen.filters, st)
                  /\ gen' = [gen EXCEPT !.state = "closed"]
              ELSE IF nOpen[gen.type] = 0 THEN
                  /\ call' = Called("next", gen.filters, "StopIteration", st, None)
                  /\ gen' = [gen EXCEPT !.state = "closed"]
              ELSE
                  /\ call' = Called("next", gen.filters, None, st,
                                    search_entity(repo.repository,
                                                  Head(Items(nOpen[gen.type]))))
                  /\ gen' = [gen EXCEPT !.state = "suspended",
                                        !.items = Tail(Items(nOpen[gen.type]))]

\* A later next(): the loop's next item, and no request.
GenResume ==
    /\ gen.state = "suspended"
    /\ reqs' = <<>>
    /\ IF gen.items = <<>> THEN
           /\ call' = Called("next", gen.filters, "StopIteration", 200, None)
           /\ gen' = [gen EXCEPT !.state = "closed"]
       ELSE
           /\ call' = Called("next", gen.filters, None, 200,
                             search_entity(repo.repository, Head(gen.items)))
           /\ gen' = [gen EXCEPT !.items = Tail(gen.items)]

SearchMrsCall ==
    /\ \E f \in Filters : Search("search_mrs", "pr", f)
    /\ UNCHANGED <<mr, procs, addressing, data, labels, hooks, nextHookId, nCommits, nOpen, statuses,
                   repo, commit, diff, remote, cache, quota>>

SearchIssuesCall ==
    /\ \E f \in Filters : Search("search_issues", "issue", f)
    /\ UNCHANGED <<mr, procs, addressing, data, labels, hooks, nextHookId, nCommits, nOpen, statuses,
                   repo, commit, diff, remote, cache, quota>>

GenStartCall ==
    /\ GenStart
    /\ UNCHANGED <<mr, procs, addressing, data, labels, hooks, nextHookId, nCommits, nOpen, statuses,
                   repo, commit, diff, remote, cache, quota>>

GenResumeCall ==
    /\ GenResume
    /\ UNCHANGED <<mr, procs, addressing, data, labels, hooks, nextHookId, nCommits, nOpen, statuses,
                   repo, commit, diff, remote, cache, quota>>

----------------------------------------------------------------------------
(* GitLabCommit: the object and its sha *)

\* An int argument left at its default None is <<>>, one that is given is <<n>>.
NoInt == <<>>

FullSha == "3fc4b860e0"

ShortSha == "3fc4b86"

Branch == "master"

\* __init__: url is what follows '/repository/commits/' in self._url.
GitLabCommit(sha_arg, branch) ==
    [sha |-> sha_arg, branch |-> branch,
     url |-> IF sha_arg # None THEN sha_arg ELSE branch,
     data |-> "unloaded"]

\* The commit objects of the model; the assert excludes the one without sha
\* and branch.
GitLabCommits ==
    {GitLabCommit(FullSha, None), GitLabCommit(ShortSha, None), GitLabCommit(None, Branch)}

\* GitLab's payload of the commit, whichever of its full SHA, a short SHA or
\* a branch that ends in it the lookup names.
CommitData == [id |-> FullSha]

\* sha: self._sha if self._sha else self.data['id']
sha(c) == IF c.sha # None THEN c.sha ELSE CommitData.id

\* Reading self.sha loads self.data: the object has no _sha and no data yet.
ShaLoads(c) == c.sha = None /\ c.data = "unloaded"

\* The request that loads self.data, when loads says the call needs it.
DataLoad(c, loads, st) ==
    IF loads THEN <<Req("GET", "commits", c.url, None, st)>> ELSE <<>>

DataLoaded(c, loads) == IF loads THEN [c EXCEPT !.data = "loaded"] ELSE c

----------------------------------------------------------------------------
(* GitLabCommit: statuses *)

GL_STATE_TRANSLATION ==
    [s \in {"RUNNING", "CANCELED", "FAILED", "PENDING", "SUCCESS"} |->
        CASE s = "RUNNING" -> "running"
          [] s = "CANCELED" -> "canceled"
          [] s = "FAILED" -> "failed"
          [] s = "PENDING" -> "pending"
          [] s = "SUCCESS" -> "success"]

\* {val: key for key, val in GL_STATE_TRANSLATION.items()}
INV_GL_STATE_TRANSLATION ==
    [v \in {GL_STATE_TRANSLATION[k] : k \in DOMAIN GL_STATE_TRANSLATION} |->
        CHOOSE k \in DOMAIN GL_STATE_TRANSLATION : GL_STATE_TRANSLATION[k] = v]

\* A status record as GitLab lists it.
GitLabStatus(name, status, description) ==
    [name |-> name, status |-> status, description |-> description, target_url |-> None]

CommitStatus(status, description, context, url) ==
    [status |-> status, description |-> description, context |-> context, url |-> url]

\* get_statuses keeping the last listed status of each name (a state the
\* table lacks stands as "KeyError").
RECURSIVE get_statuses_last(_, _)
get_statuses_last(listed, contexts) ==
    IF listed = <<>> THEN {}
    ELSE LET status == listed[Len(listed)]
             rest == SubSeq(listed, 1, Len(listed) - 1)
             state == IF status.status \in DOMAIN INV_GL_STATE_TRANSLATION
                      THEN INV_GL_STATE_TRANSLATION[status.status] ELSE "KeyError"
         IN  IF status.name \notin contexts
             THEN {CommitStatus(state, status.description, status.name, status.target_url)}
                  \cup get_statuses_last(rest, contexts \cup {status.name})
             ELSE get_statuses_last(rest, contexts)

\* get_statuses: the loop over the listed statuses, contexts being the names
\* seen so far.
RECURSIVE get_statuses_result(_, _)
get_statuses_result(listed, contexts) ==
    IF listed = <<>> THEN {}
    ELSE LET status == Head(listed)
         IN  IF status.name \notin contexts
             THEN {CommitStatus(INV_GL_STATE_TRANSLATION[status.status],
                                status.description, status.name, status.target_url)}
                  \cup get_statuses_result(Tail(listed), contexts \cup {status.name})
             ELSE get_statuses_result(Tail(listed), contexts)

\* get_statuses: a status the loop translates has a state the table lacks.
RECURSIVE get_statuses_key_error(_, _)
get_statuses_key_error(listed, contexts) ==
    IF listed = <<>> THEN FALSE
    ELSE LET status == Head(listed)
         IN  IF status.name \notin contexts
             THEN \/ status.status \notin DOMAIN INV_GL_STATE_TRANSLATION
                  \/ get_statuses_key_error(Tail(listed), contexts \cup {status.name})
             ELSE get_statuses_key_error(Tail(listed), contexts)

\* set_status posting the description as the name and the name as the description.
set_status_data_swapped(status) ==
    [state |-> GL_STATE_TRANSLATION[status.status], target_url |-> status.url,
     description |-> status.context, name |-> status.description]

\* set_status: the body of the POST.
set_status_data(status) ==
    [state |-> GL_STATE_TRANSLATION[status.status], target_url |-> status.url,
     description |-> status.description, name |-> status.context]

GetStatuses ==
    LET loads == ShaLoads(commit)
    IN  \E st0 \in (IF loads THEN Statuses ELSE {200}) :
            IF ~Ok(st0) THEN
                /\ reqs' = DataLoad(commit, loads, st0)
                /\ call' = RuntimeErrorOf("get_statuses", None, st0)
                /\ UNCHANGED commit
            ELSE \E st \in Statuses :
                /\ reqs' = DataLoad(commit, loads, st0)
                            \o <<Req("GET", "statuses", sha(commit), None, st)>>
                /\ commit' = DataLoaded(commit, loads)
                /\ call' = IF ~Ok(st) THEN RuntimeErrorOf("get_statuses", None, st)
                           ELSE IF get_statuses_key_error(statuses, {})
                           THEN Called("get_statuses", None, "KeyError", st, None)
                           ELSE Called("get_statuses", None, None, st,
                                       get_statuses_result(statuses, {}))

\* GitLab lists the statuses of a commit newest first.
SetStatus(status) ==
    LET loads == ShaLoads(commit)
        body == set_status_data(status)
    IN  \E st0 \in (IF loads THEN Statuses ELSE {200}) :
            IF ~Ok(st0) THEN
                /\ reqs' = DataLoad(commit, loads, st0)
                /\ call' = RuntimeErrorOf("set_status", status, st0)
                /\ UNCHANGED <<commit, statuses>>
            ELSE \E st \in Statuses :
                /\ reqs' = DataLoad(commit, loads, st0)
                            \o <<Req("POST", "statuses", sha(commit), body, st)>>
                /\ commit' = DataLoaded(commit, loads)
                /\ IF ~Ok(st) THEN
                       /\ call' = RuntimeErrorOf("set_status", status, st)
                       /\ UNCHANGED statuses
                   ELSE
                       /\ Len(statuses) < MaxStatuses
                       /\ call' = Called("set_status", status, None, st, None)
                       /\ statuses' = <<GitLabStatus(body.name, body.state,
                                                     body.description)>> \o statuses

Contexts == {"n1", "n2"}

\* The statuses the model calls set_status with.
StatusArgs ==
    {CommitStatus(sd[1], sd[2], c, None) :
        sd \in {<<"SUCCESS", "d1">>, <<"FAILED", "d2">>}, c \in Contexts}

GetStatusesCall ==
    /\ GetStatuses
    /\ UNCHANGED <<mr, procs, addressing, data, labels, hooks, nextHookId, nCommits, nOpen, gen,
                   statuses, repo, diff, remote, cache, quota>>

SetStatusCall(args) ==
    /\ \E status \in args : SetStatus(status)
    /\ UNCHANGED <<mr, procs, addressing, data, labels, hooks, nextHookId, nCommits, nOpen, gen, repo,
                   diff, remote, cache, quota>>

----------------------------------------------------------------------------
(* GitLabCommit: get_patch_for_file and comment *)

\* A diff entry as GitLab lists it. Its diff text is modelled by the line
\* numbers of the new file that its hunks show, in the order of the text.
DiffEntry(new_path, old_path, text) ==
    [new_path |-> new_path, old_path |-> old_path, diff |-> text]

\* get_patch_for_file looking at new_path only.
get_patch_for_file_matches_new(patch, filename) == filename = patch.new_path

\* get_patch_for_file: filename in (patch['new_path'], patch['old_path'])
get_patch_for_file_matches(patch, filename) ==
    filename \in {patch.new_path, patch.old_path}

\* get_patch_for_file: the loop over the listed entries; <<text>> for the
\* text it returns, <<>> where it raises ElementDoesntExistError.
RECURSIVE get_patch_for_file(_, _)
get_patch_for_file(listed, filename) ==
    IF listed = <<>> THEN <<>>
    ELSE IF get_patch_for_file_matches(Head(listed), filename)
    THEN <<Head(listed).diff>>
    ELSE get_patch_for_file(Tail(listed), filename)

\* get_diff_index: the index in the diff text of the line that shows line
\* line_nr of the new file, 0 for the None of a line the text does not show.
get_diff_index(patch, line_nr) ==
    IF \E i \in DOMAIN patch : patch[i] = line_nr
    THEN CHOOSE i \in DOMAIN patch :
             patch[i] = line_nr /\ \A j \in 1..(i - 1) : patch[j] # line_nr
    ELSE 0

\* str(line) for the lines of the model.
str(n) == <<"0", "1", "2", "3", "4", "5", "6", "7", "8", "9">>[n + 1]

\* comment placing every file and line comment below the commit.
comment_inline_never(index) == FALSE

\* comment: if index
comment_inline(index) == index # 0

\* comment: data after the lookup of file and line (a dict, its keys the
\* domain), the listed entries being what get_patch_for_file fetched.
comment_data(message, file, line, listed) ==
    LET data0 == [note |-> <<message>>, line_type |-> "new"]
    IN  IF file # None /\ line # NoInt THEN
            LET found == get_patch_for_file(listed, file)
            IN  IF found = <<>> THEN data0
                ELSE LET index == get_diff_index(found[1], line[1])
                     IN  IF comment_inline(index)
                         THEN ("line" :> index) @@ ("path" :> file) @@ data0
                         ELSE data0
        ELSE data0

\* comment: the note of a comment that carries no line, a text in pieces.
comment_note(commit_sha, file, line, note) ==
    LET file_str == IF file = None THEN <<>> ELSE <<", file ", file>>
        line_str == IF line = NoInt THEN <<>> ELSE <<", line ", str(line[1])>>
    IN  <<"Comment on ", commit_sha>> \o file_str \o line_str \o <<".\n\n">> \o note

\* comment posting every comment on the commit.
comment_route_commit(c, mr_number) == [res |-> "commits/comments", tail |-> c.url]

\* comment: the endpoint of the POST.
comment_route(c, mr_number) ==
    IF mr_number = NoInt THEN [res |-> "commits/comments", tail |-> c.url]
    ELSE [res |-> "merge_requests/notes", tail |-> mr_number[1]]

\* comment: the body of the POST.
comment_body(mr_number, d) ==
    IF mr_number = NoInt THEN d ELSE ("body" :> d.note) @@ d

GetPatchForFile(filename) ==
    \E st \in Statuses :
        /\ reqs' = <<Req("GET", "commits/diff", commit.url, None, st)>>
        /\ call' = IF ~Ok(st) THEN RuntimeErrorOf("get_patch_for_file", filename, st)
                   ELSE LET found == get_patch_for_file(diff, filename)
                        IN  IF found = <<>>
                            THEN Called("get_patch_for_file", filename,
                                        "ElementDoesntExistError", st, None)
                            ELSE Called("get_patch_for_file", filename, None, st, found[1])

Comment(message, file, line, mr_number) ==
    LET arg == [message |-> message, file |-> file, line |-> line,
                mr_number |-> mr_number]
        looks == file # None /\ line # NoInt
    IN  \E st1 \in (IF looks THEN Statuses ELSE {200}) :
            LET lookup == IF looks THEN <<Req("GET", "commits/diff", commit.url, None, st1)>>
                          ELSE <<>>
                data1 == comment_data(message, file, line, diff)
                loads == "line" \notin DOMAIN data1 /\ ShaLoads(commit)
            IN  IF ~Ok(st1) THEN
                    /\ reqs' = lookup
                    /\ call' = RuntimeErrorOf("comment", arg, st1)
                    /\ UNCHANGED commit
                ELSE \E st0 \in (IF loads THEN Statuses ELSE {200}) :
                    IF ~Ok(st0) THEN
                        /\ reqs' = lookup \o DataLoad(commit, loads, st0)
                        /\ call' = RuntimeErrorOf("comment", arg, st0)
                        /\ UNCHANGED commit
                    ELSE \E st2 \in Statuses :
                        LET data2 == IF "line" \notin DOMAIN data1
                                     THEN ("note" :> comment_note(sha(commit), file, line,
                                                                  data1.note)) @@ data1
                                     ELSE data1
                            route == comment_route(commit, mr_number)
                        IN  /\ reqs' = lookup \o DataLoad(commit, loads, st0)
                                        \o <<Req("POST", route.res, route.tail,
                                                 comment_body(mr_number, data2), st2)>>
                            /\ commit' = DataLoaded(commit, loads)
                            /\ call' = IF Ok(st2) THEN Called("comment", arg, None, st2, None)
                                       ELSE RuntimeErrorOf("comment", arg, st2)

Files == {None, "README.md", "OLD.md"}

Lines == {NoInt, <<4>>, <<8>>}

MrNumbers == {NoInt, <<7>>}

\* The diffs the commit has on GitLab: none; README.md changed in lines 1 to
\* 4; a file renamed from OLD.md with no line changed, README.md written anew
\* and then the README.md of before renamed.
Diffs ==
    {<<>>,
     <<DiffEntry("README.md", "README.md", <<1, 2, 3, 4>>)>>,
     <<DiffEntry("NEW.md", "OLD.md", <<>>),
       DiffEntry("README.md", "README.md", <<7, 8>>),
       DiffEntry("MOVED.md", "README.md", <<3, 4>>)>>}

GetPatchForFileCall ==
    /\ \E filename \in Files \ {None} : GetPatchForFile(filename)
    /\ UNCHANGED <<mr, procs, addressing, data, labels, hooks, nextHookId, nCommits, nOpen, gen,
                   statuses, repo, commit, diff, remote, cache, quota>>

CommentCall ==
    /\ \E file \in Files, line \in Lines, mr_number \in MrNumbers :
           Comment("msg", file, line, mr_number)
    /\ UNCHANGED <<mr, procs, addressing, data, labels, hooks, nextHookId, nCommits, nOpen, gen,
                   statuses, repo, diff, remote, cache, quota>>

----------------------------------------------------------------------------
(* The access layer: _fetch with its response cache, and refresh *)

\* The paths of the model: the repository, its issues (a list served in
\* pages) and a repository that does not exist.
RepoPath == <<"/repos/", ServiceFullName>>

IssuesPath == <<"/repos/", ServiceFullName, "/issues">>

MissingPath == <<"/repos/", <<"o", "/", "w">>>>

\* The raw body of a response that carries the JSON value v, and its decoding;
\* an empty body decodes to an empty structure.
Text(v) == <<"json", v>>

decode(text) == IF text = <<>> THEN <<>> ELSE text[2]

\* The items the hosting service serves as page page of resource r.
PageItems(r, page) ==
    <<[id |-> 2 * page - 1, v |-> r.version], [id |-> 2 * page, v |-> r.version]>>

Response(status, text, next, etag, remaining) ==
    [status |-> status, text |-> text, next |-> next, etag |-> etag,
     remaining |-> remaining]

\* The answer of the hosting service to a GET of page page of path, sent with
\* the validator sent (0 for none) when q of the rate quota is left: 404 for
\* what it does not hold, 304 without charge for a validator that is current,
\* 403 once the quota is used up.
Serve(path, page, sent, q) ==
    LET r == remote[path]
    IN  IF page > r.pages THEN Response(404, Text("Not Found"), 0, 0, q)
        ELSE IF sent = r.version THEN Response(304, <<>>, 0, r.version, q)
        ELSE IF q = 0 THEN Response(403, Text("rate limit exceeded"), 0, 0, q)
        ELSE Response(200, Text(PageItems(r, page)),
                      IF page < r.pages THEN page + 1 ELSE 0, r.version, q - 1)

\* _fetch raising on server errors only.
fetch_raises_5xx(status) == status >= 500

\* _fetch: a non-2xx answer raises; not modified is answered from the cache.
fetch_raises(status) == ~Ok(status) /\ status # 304

\* _fetch sending no validator.
fetch_validator_none(c, url) == 0

\* _fetch: the validator of a conditional request, from the cache entry of
\* the exact URL.
fetch_validator(c, url) == IF url \in DOMAIN c THEN c[url].etag ELSE 0

\* _fetch giving back the first page only.
fetch_follows_never(resp) == FALSE

\* _fetch: the response has a next link.
fetch_follows(resp) == resp.next # 0

\* _fetch from page page on, with cache c and quota q: the exchanges in
\* order, the cache and quota after them, the items gathered, and the
\* arguments of the RuntimeError if it raised. The exchange of page failAt
\* (none when 0) ends with status st whatever the hosting service holds.
RECURSIVE fetch(_, _, _, _, _, _)
fetch(path, page, c, q, failAt, st) ==
    LET url == <<path, page>>
        resp == IF page = failAt THEN Response(st, Text("error"), 0, 0, q)
                ELSE Serve(path, page, fetch_validator(c, url), q)
        exchange == ("text" :> resp.text) @@ Req("GET", path, page, None, resp.status)
    IN  IF fetch_raises(resp.status) THEN
            [reqs |-> <<exchange>>, cache |-> c, quota |-> q, items |-> <<>>,
             raised |-> <<resp.text, resp.status>>]
        ELSE
            LET used == IF resp.status = 304 THEN c[url] ELSE resp
                c2 == IF resp.status = 304 THEN c ELSE (url :> resp) @@ c
            IN  IF fetch_follows(used) THEN
                    LET rest == fetch(path, used.next, c2, resp.remaining, failAt, st)
                    IN  [rest EXCEPT !.reqs = <<exchange>> \o @,
                                     !.items = IF rest.raised = <<>>
                                               THEN decode(used.text) \o @ ELSE <<>>]
                ELSE
                    [reqs |-> <<exchange>>, cache |-> c2, quota |-> resp.remaining,
                     items |-> decode(used.text), raised |-> <<>>]

\* A call op of _fetch on path: for a call that raised, ret holds the first
\* argument of the RuntimeError and status its second.
Fetch(op, path) ==
    \E failAt \in 0..remote[path].pages :
        \E st \in (IF failAt = 0 THEN {200} ELSE {x \in Statuses : ~Ok(x)}) :
            LET r == fetch(path, 1, cache, quota, failAt, st)
            IN  /\ reqs' = r.reqs
                /\ cache' = r.cache
                /\ quota' = r.quota
                /\ call' = IF r.raised = <<>> THEN Called(op, path, None, 200, r.items)
                           ELSE [Called(op, path, "RuntimeError", r.raised[2], r.raised[1])
                                    EXCEPT !.outage = failAt # 0]

FetchCall(paths) ==
    /\ \E path \in paths : Fetch("_fetch", path)
    /\ UNCHANGED <<mr, procs, addressing, data, labels, hooks, nextHookId, nCommits, nOpen, gen,
                   statuses, repo, commit, diff, remote>>

\* refresh: the object's data fetched anew from its URL.
RefreshCall ==
    /\ Fetch("refresh", repo.url)
    /\ data' = IF call'.raised = None THEN "repo" ELSE data
    /\ UNCHANGED <<mr, procs, addressing, labels, hooks, nextHookId, nCommits, nOpen, gen, statuses,
                   repo, commit, diff, remote>>

\* The resource at path changes on the hosting service.
RemoteChange(path) ==
    /\ remote[path].pages > 0
    /\ remote[path].version < MaxVersion
    /\ remote' = [remote EXCEPT ![path].version = @ + 1]
    /\ UNCHANGED <<mr, procs, addressing, data, labels, hooks, nextHookId, nCommits, nOpen, gen,
                   statuses, repo, commit, diff, cache, quota, reqs, call>>

----------------------------------------------------------------------------
(* The merge request: state, close and reopen *)

MrStates == {"open", "closed"}

\* The merge request object before its data is loaded; done is the history of
\* the transitions that returned on this object.
MergeRequest(state) == [state |-> state, data |-> "unloaded", done |-> <<>>]

\* A transition that leaves the cached data as it was.
transition_data_kept(cached, payload) == cached

\* The cached data after a transition: the payload the hosting service answered
\* the PATCH with.
transition_data(cached, payload) == payload

\* close / reopen: PATCH the state field, store the answer as the data.
Transition(op, target) ==
    /\ mr # NoMr
    /\ Len(mr.done) < MaxTransitions
    /\ \E st \in Statuses :
        IF ~Ok(st) THEN
            /\ reqs' = <<Req("PATCH", "mr", <<>>, [state |-> target], st)>>
            /\ call' = RuntimeErrorOf(op, None, st)
            /\ UNCHANGED mr
        ELSE
            /\ reqs' = <<Req("PATCH", "mr", <<>>, [state |-> target], st)>>
            /\ call' = Called(op, None, None, st, None)
            /\ mr' = [state |-> target,
                      data |-> transition_data(mr.data, target),
                      done |-> Append(mr.done, op)]

\* state: data['state'], the data loaded from the object's URL on first access.
MrState ==
    /\ mr # NoMr
    /\ IF mr.data = "unloaded" THEN
           \E st \in Statuses :
               IF ~Ok(st) THEN
                   /\ reqs' = <<Req("GET", "mr", <<>>, None, st)>>
                   /\ call' = RuntimeErrorOf("state", None, st)
                   /\ UNCHANGED mr
               ELSE
                   /\ reqs' = <<Req("GET", "mr", <<>>, None, st)>>
                   /\ call' = Called("state", None, None, st, mr.state)
                   /\ mr' = [mr EXCEPT !.data = mr.state]
       ELSE
           /\ reqs' = <<>>
           /\ call' = Called("state", None, None, 200, mr.data)
           /\ UNCHANGED mr

\* Another client of the hosting service closes or reopens the merge request.
ForeignTransition ==
    /\ mr # NoMr
    /\ \E target \in MrStates \ {mr.state} : mr' = [mr EXCEPT !.state = target]
    /\ UNCHANGED <<addressing, data, labels, hooks, nextHookId, nCommits, nOpen, gen,
                   statuses, repo, commit, diff, remote, cache, quota, procs, reqs, call>>

CloseCall ==
    /\ Transition("close", "closed")
    /\ UNCHANGED <<addressing, data, labels, hooks, nextHookId, nCommits, nOpen, gen,
                   statuses, repo, commit, diff, remote, cache, quota, procs>>

ReopenCall ==
    /\ Transition("reopen", "open")
    /\ UNCHANGED <<addressing, data, labels, hooks, nextHookId, nCommits, nOpen, gen,
                   statuses, repo, commit, diff, remote, cache, quota, procs>>

MrStateCall ==
    /\ MrState
    /\ UNCHANGED <<addressing, data, labels, hooks, nextHookId, nCommits, nOpen, gen,
                   statuses, repo, commit, diff, remote, cache, quota, procs>>

----------------------------------------------------------------------------
(* create_label and register_hook run by two callers, request by request *)

Callers == {1, 2}

\* A caller before its call: pc is the caller's position, reqs the requests
\* its call has issued.
Idle == [pc |-> "idle", op |-> None, arg |-> None, raised |-> None, reqs |-> <<>>]

\* The caller's call ends, raising what it raises.
Ended(p, req, raised) ==
    [p EXCEPT !.pc = "done", !.raised = raised, !.reqs = Append(@, req)]

\* A caller enters create_label(arg, '#f') or register_hook(arg).
Begin(c, op, arg) ==
    /\ procs[c].pc = "idle"
    /\ procs' = [procs EXCEPT ![c] = [Idle EXCEPT !.pc = "check", !.op = op, !.arg = arg]]
    /\ UNCHANGED <<labels, hooks, nextHookId, data,
                   addressing, nCommits, nOpen, gen, statuses, repo, commit, diff,
                   remote, cache, quota, mr, reqs, call>>

\* create_label up to its pre-check: the labels are listed, and the call
\* raises when the name is among them.
CreateLabelCheck(c) ==
    LET p == procs[c]
    IN  /\ p.pc = "check"
        /\ p.op = "create_label"
        /\ \E st \in Statuses :
               LET listing == Req("GET", "labels", <<>>, None, st)
               IN  procs' = [procs EXCEPT ![c] =
                       IF ~Ok(st) THEN Ended(p, listing, "RuntimeError")
                       ELSE IF create_label_exists(p.arg, labels)
                       THEN Ended(p, listing, "ElementAlreadyExistsError")
                       ELSE [p EXCEPT !.pc = "post", !.reqs = Append(@, listing)]]
        /\ UNCHANGED <<labels, hooks, nextHookId, data,
                   addressing, nCommits, nOpen, gen, statuses, repo, commit, diff,
                   remote, cache, quota, mr, reqs, call>>

\* create_label after its pre-check: the POST, which the hosting service
\* answers with 422 when a label of the name exists by now.
CreateLabelPost(c) ==
    LET p == procs[c]
    IN  /\ p.pc = "post"
        /\ p.op = "create_label"
        /\ \E st \in Statuses :
               LET sent == IF Ok(st) /\ p.arg \in labels THEN 422 ELSE st
                   post == Req("POST", "labels", <<>>, create_label_body(p.arg, <<"#", "f">>),
                               sent)
               IN  /\ procs' = [procs EXCEPT ![c] =
                           Ended(p, post, IF Ok(sent) THEN None ELSE "RuntimeError")]
                   /\ labels' = IF Ok(sent) THEN labels \cup {p.arg} ELSE labels
                   /\ data' = IF Ok(sent) THEN "label" ELSE data
        /\ UNCHANGED <<hooks, nextHookId,
                       addressing, nCommits, nOpen, gen, statuses, repo, commit, diff,
                       remote, cache, quota, mr, reqs, call>>

\* register_hook up to its pre-check: the hooks are listed, and the call
\* returns when the url is among theirs.
RegisterHookCheck(c) ==
    LET p == procs[c]
    IN  /\ p.pc = "check"
        /\ p.op = "register_hook"
        /\ \E st \in Statuses :
               LET listing == Req("GET", "hooks", None, None, st)
               IN  procs' = [procs EXCEPT ![c] =
                       IF ~Ok(st) THEN Ended(p, listing, "RuntimeError")
                       ELSE IF register_hook_known(p.arg, hooks)
                       THEN Ended(p, listing, None)
                       ELSE [p EXCEPT !.pc = "post", !.reqs = Append(@, listing)]]
        /\ UNCHANGED <<labels, hooks, nextHookId, data,
                   addressing, nCommits, nOpen, gen, statuses, repo, commit, diff,
                   remote, cache, quota, mr, reqs, call>>

\* register_hook after its pre-check: the POST, which adds a hook record.
RegisterHookPost(c) ==
    LET p == procs[c]
        body == register_hook_body(p.arg, None, {})
    IN  /\ p.pc = "post"
        /\ p.op = "register_hook"
        /\ \E st \in Statuses :
               /\ procs' = [procs EXCEPT ![c] =
                       Ended(p, Req("POST", "hooks", None, body, st),
                             IF Ok(st) THEN None ELSE "RuntimeError")]
               /\ IF Ok(st) THEN
                      /\ hooks' = Append(hooks, Hook(nextHookId, body.url, body.secret,
                                                     body.events))
                      /\ nextHookId' = nextHookId + 1
                      /\ data' = "hook"
                  ELSE UNCHANGED <<hooks, nextHookId, data>>
        /\ UNCHANGED <<labels,
                       addressing, nCommits, nOpen, gen, statuses, repo, commit, diff,
                       remote, cache, quota, mr, reqs, call>>

----------------------------------------------------------------------------
(* Initial states *)

NoCall ==
    [op |-> "init", arg |-> None, raised |-> None, status |-> 200, ret |-> None,
     outage |-> FALSE, seq |-> 0]

NoGen == [state |-> "none"]

IssueTypes == {"issue", "pr"}

NoneOpen == [t \in IssueTypes |-> 0]

\* The access layer's state where a specification leaves it aside.
NoRemote == <<>>

NoCache == <<>>

InitRest ==
    /\ addressing \in {"name", "id"}
    /\ repo = repository_init(IF addressing = "name" THEN ServiceFullName ELSE ServiceId)
    /\ commit = GitLabCommit(FullSha, None)
    /\ diff = <<>>
    /\ remote = NoRemote
    /\ cache = NoCache
    /\ quota = 0
    /\ mr = NoMr
    /\ procs = NoProcs
    /\ data = "unloaded"
    /\ reqs = <<>>
    /\ call = NoCall

InitLabels ==
    /\ InitRest
    /\ labels \in SUBSET LabelNames
    /\ hooks = <<>>
    /\ nextHookId = 1
    /\ nCommits = 0
    /\ nOpen = NoneOpen
    /\ gen = NoGen
    /\ statuses = <<>>

NextLabels ==
    \/ GetLabelsCall
    \/ CreateLabelCall(LabelNames)
    \/ DeleteLabelCall(LabelNames)

SpecLabels == InitLabels /\ [][NextLabels]_vars

InitHooks ==
    /\ InitRest
    /\ labels = {}
    /\ hooks \in {<<>>, <<Hook(1, NoUrl, None, {"*"})>>}
    /\ nextHookId = Len(hooks) + 1
    /\ nCommits = 0
    /\ nOpen = NoneOpen
    /\ gen = NoGen
    /\ statuses = <<>>

NextHooks ==
    \/ HooksCall
    \/ RegisterHookCall(HookUrls, Secrets, EventSets)
    \/ DeleteHookCall(HookUrls)

\* The repository's hooks with this program as the hosting service's only client.
SpecHooks == InitHooks /\ [][NextHooks]_vars

NextHooksShared ==
    \/ HooksCall
    \/ RegisterHookCall(HookUrls, {None}, {{}})
    \/ DeleteHookCall(HookUrls)
    \/ ForeignHook

\* The repository's hooks with other clients adding hook records as well.
SpecHooksShared == InitHooks /\ [][NextHooksShared]_vars

InitRepo ==
    /\ InitRest
    /\ labels \in {{}, {<<"a">>}}
    /\ hooks = <<>>
    /\ nextHookId = 1
    /\ nCommits \in 0..MaxCommits
    /\ nOpen \in {NoneOpen, [t \in IssueTypes |-> 1]}
    /\ gen = NoGen
    /\ statuses = <<>>

NextRepo ==
    \/ CommitsCall
    \/ MergeRequestsCall
    \/ GetLabelsCall
    \/ CreateLabelCall({<<"a">>})
    \/ DeleteLabelCall({<<"a">>})
    \/ HooksCall
    \/ RegisterHookCall({"u1"}, {None}, {{}})
    \/ DeleteHookCall({"u1"})
    \/ FullNameCall
    \/ IdentifierCall
    \/ CloneUrlCall

\* The operations of one repository object, called in any order.
SpecRepo == InitRepo /\ [][NextRepo]_vars

InitSearch ==
    /\ InitRest
    /\ labels = {}
    /\ hooks = <<>>
    /\ nextHookId = 1
    /\ nCommits = 0
    /\ nOpen \in [IssueTypes -> 0..MaxItems]
    /\ gen = NoGen
    /\ statuses = <<>>

NextSearch ==
    \/ SearchMrsCall
    \/ SearchIssuesCall
    \/ GenStartCall
    \/ GenResumeCall
    \/ TopLevelOrgCall
    \/ CreateFileCall

\* Searches of one repository object and the consumption of what they return.
SpecSearch == InitSearch /\ [][NextSearch]_vars

\* The status lists the commit starts with on GitLab: none, three statuses of
\* one name and one of another, and one whose first status is a skipped job.
InitStatusLists ==
    {<<>>,
     <<GitLabStatus("n1", "failed", "d2"), GitLabStatus("n2", "success", "d1"),
       GitLabStatus("n1", "success", "d1"), GitLabStatus("n1", "pending", "d1")>>,
     <<GitLabStatus("n2", "skipped", "d1"), GitLabStatus("n1", "running", "d1")>>,
     <<GitLabStatus("n1", "canceled", "d1"), GitLabStatus("n1", "skipped", "d2")>>}

InitStatuses ==
    /\ addressing = "name"
    /\ repo = repository_init(ServiceFullName)
    /\ commit = GitLabCommit(FullSha, None)
    /\ diff = <<>>
    /\ remote = NoRemote
    /\ cache = NoCache
    /\ quota = 0
    /\ mr = NoMr
    /\ procs = NoProcs
    /\ data = "unloaded"
    /\ reqs = <<>>
    /\ call = NoCall
    /\ labels = {}
    /\ hooks = <<>>
    /\ nextHookId = 1
    /\ nCommits = 0
    /\ nOpen = NoneOpen
    /\ gen = NoGen
    /\ statuses \in InitStatusLists

NextStatuses ==
    \/ GetStatusesCall
    \/ SetStatusCall(StatusArgs)

\* The statuses of one GitLab commit object.
SpecStatuses == InitStatuses /\ [][NextStatuses]_vars

InitCommit ==
    /\ addressing = "name"
    /\ repo = repository_init(ServiceFullName)
    /\ commit \in GitLabCommits
    /\ diff \in Diffs
    /\ remote = NoRemote
    /\ cache = NoCache
    /\ quota = 0
    /\ mr = NoMr
    /\ procs = NoProcs
    /\ data = "unloaded"
    /\ reqs = <<>>
    /\ call = NoCall
    /\ labels = {}
    /\ hooks = <<>>
    /\ nextHookId = 1
    /\ nCommits = 0
    /\ nOpen = NoneOpen
    /\ gen = NoGen
    /\ statuses = [i \in 1..(MaxStatuses - 1) |-> GitLabStatus("n1", "failed", "d2")]

NextCommit ==
    \/ GetPatchForFileCall
    \/ CommentCall
    \/ GetStatusesCall
    \/ SetStatusCall({CommitStatus("SUCCESS", "d1", "n1", None)})

\* The operations of one GitLab commit object, whichever way it was built.
SpecCommit == InitCommit /\ [][NextCommit]_vars

InitAddressing ==
    /\ repo \in {repository_init(repository) : repository \in RepoArgs}
    /\ addressing = IF repo.repository = None THEN "id" ELSE "name"
    /\ commit = GitLabCommit(FullSha, None)
    /\ diff = <<>>
    /\ remote = NoRemote
    /\ cache = NoCache
    /\ quota = 0
    /\ mr = NoMr
    /\ procs = NoProcs
    /\ data = "unloaded"
    /\ reqs = <<>>
    /\ call = NoCall
    /\ labels \in {{}, {<<"a">>}}
    /\ hooks = <<>>
    /\ nextHookId = 1
    /\ nCommits = 0
    /\ nOpen = NoneOpen
    /\ gen = NoGen
    /\ statuses = <<>>

NextAddressing ==
    \/ ConstructCall(RepoArgs)
    \/ FullNameCall
    \/ GetLabelsCall
    \/ CreateLabelCall({<<"a">>, <<"b">>})
    \/ DeleteLabelCall({<<"a">>})

\* Repository objects built from names and from identifiers, and their use.
SpecAddressing == InitAddressing /\ [][NextAddressing]_vars

InitAccess ==
    /\ addressing = "name"
    /\ repo = repository_init(ServiceFullName)
    /\ commit = GitLabCommit(FullSha, None)
    /\ diff = <<>>
    /\ \E n \in 1..MaxPages :
           remote = [path \in {RepoPath, IssuesPath, MissingPath} |->
                        [version |-> 1,
                         pages |-> IF path = MissingPath THEN 0
                                   ELSE IF path = IssuesPath THEN n ELSE 1]]
    /\ cache = NoCache
    /\ quota = MaxQuota
    /\ mr = NoMr
    /\ procs = NoProcs
    /\ data = "unloaded"
    /\ reqs = <<>>
    /\ call = NoCall
    /\ labels = {}
    /\ hooks = <<>>
    /\ nextHookId = 1
    /\ nCommits = 0
    /\ nOpen = NoneOpen
    /\ gen = NoGen
    /\ statuses = <<>>

NextAccess ==
    \/ FetchCall({IssuesPath, MissingPath})
    \/ RefreshCall
    \/ RemoteChange(RepoPath)

\* Fetches through the access layer while the resources change.
SpecAccess == InitAccess /\ [][NextAccess]_vars

InitMr ==
    /\ addressing = "name"
    /\ repo = repository_init(ServiceFullName)
    /\ commit = GitLabCommit(FullSha, None)
    /\ diff = <<>>
    /\ remote = NoRemote
    /\ cache = NoCache
    /\ quota = 0
    /\ mr \in {MergeRequest(state) : state \in MrStates}
    /\ procs = NoProcs
    /\ data = "unloaded"
    /\ reqs = <<>>
    /\ call = NoCall
    /\ labels = {}
    /\ hooks = <<>>
    /\ nextHookId = 1
    /\ nCommits = 0
    /\ nOpen = NoneOpen
    /\ gen = NoGen
    /\ statuses = <<>>

NextMr ==
    \/ CloseCall
    \/ ReopenCall
    \/ MrStateCall
    \/ ForeignTransition

\* One merge request object in use while other clients change the merge request.
SpecMr == InitMr /\ [][NextMr]_vars

InitCallers ==
    /\ addressing = "name"
    /\ repo = repository_init(ServiceFullName)
    /\ commit = GitLabCommit(FullSha, None)
    /\ diff = <<>>
    /\ remote = NoRemote
    /\ cache = NoCache
    /\ quota = 0
    /\ mr = NoMr
    /\ procs = [c \in Callers |-> Idle]
    /\ data = "unloaded"
    /\ reqs = <<>>
    /\ call = NoCall
    /\ labels \in {{}, {<<"a">>}}
    /\ hooks \in {<<>>, <<Hook(1, "u1", None, {"*"})>>}
    /\ nextHookId = Len(hooks) + 1
    /\ nCommits = 0
    /\ nOpen = NoneOpen
    /\ gen = NoGen
    /\ statuses = <<>>

NextCallers ==
    \/ \E c \in Callers, name \in LabelNames : Begin(c, "create_label", name)
    \/ \E c \in Callers : CreateLabelCheck(c)
    \/ \E c \in Callers : CreateLabelPost(c)
    \/ \E c \in Callers, url \in HookUrls : Begin(c, "register_hook", url)
    \/ \E c \in Callers : RegisterHookCheck(c)
    \/ \E c \in Callers : RegisterHookPost(c)

\* Two callers, each running one create_label or register_hook on the same
\* repository, their requests interleaved in any order.
SpecCallers == InitCallers /\ [][NextCallers]_vars

----------------------------------------------------------------------------
(* Claims about label creation and deletion *)

\* C1: create_label(name, color) with name in the repository's current labels
\* raises ElementAlreadyExistsError, issues no POST and leaves the labels as
\* they are; the only other outcome is the RuntimeError of a label listing
\* that itself failed, again with no POST and the labels unchanged.
C1_CreateExistingRaises ==
    [][(IsCall("create_label") /\ call'.arg \in labels) =>
           /\ "POST" \notin Methods(reqs')
           /\ labels' = labels
           /\ \/ call'.raised = "ElementAlreadyExistsError"
              \/ call'.raised = "RuntimeError" /\ call'.outage /\ Len(reqs') = 1]_vars

C1_Witness ==
    /\ call.op = "create_label"
    /\ call.raised = "ElementAlreadyExistsError"
    /\ call.arg \in labels
    /\ Methods(reqs) = {"GET"}

\* C2: delete_label(name) with name not in the repository's current labels
\* raises ElementDoesntExistError, issues no DELETE and leaves the labels as
\* they are; the only other outcome is the RuntimeError of a label listing
\* that itself failed, again with no DELETE and the labels unchanged.
C2_DeleteMissingRaises ==
    [][(IsCall("delete_label") /\ call'.arg \notin labels) =>
           /\ "DELETE" \notin Methods(reqs')
           /\ labels' = labels
           /\ \/ call'.raised = "ElementDoesntExistError"
              \/ call'.raised = "RuntimeError" /\ call'.outage /\ Len(reqs') = 1]_vars

C2_Witness ==
    /\ call.op = "delete_label"
    /\ call.raised = "ElementDoesntExistError"
    /\ call.arg \notin labels
    /\ Methods(reqs) = {"GET"}

\* C3: for every label set L and name n not in L, create_label(n, color)
\* succeeds and leaves L plus n, and a delete_label(n) that follows it
\* succeeds and leaves exactly L (no exchange failing for a reason outside the
\* repository's state).
C3_LabelRoundTrip ==
    [][/\ (IsCall("create_label") /\ call'.arg \notin labels /\ ~call'.outage) =>
              (call'.raised = None /\ labels' = labels \cup {call'.arg})
       /\ (/\ call.op = "create_label" /\ call.raised = None
           /\ IsCall("delete_label") /\ call'.arg = call.arg
           /\ ~call'.outage) =>
              (call'.raised = None /\ labels' = labels \ {call.arg})]_vars

----------------------------------------------------------------------------
(* Claims about hook registration and removal *)

\* C4: register_hook(url, secret, events), whatever the secret and events,
\* issues no POST and leaves the hook records as they are when url is already
\* in hooks; a call that returns leaves exactly one record for url; and no
\* sequence of calls leaves a URL with more than one record.
C4_RegisterHookIdempotent ==
    [][IsCall("register_hook") =>
           /\ call'.arg.url \in hooks_urls(hooks) =>
                  ("POST" \notin Methods(reqs') /\ hooks' = hooks)
           /\ call'.raised = None => CountUrl(hooks', call'.arg.url) = 1
           /\ \A u \in HookUrls : CountUrl(hooks', u) <= 1]_vars

C4_Witness ==
    /\ call.op = "register_hook"
    /\ call.raised = None
    /\ Methods(reqs) = {"GET"}
    /\ CountUrl(hooks, call.arg.url) = 1
    /\ \E i \in DOMAIN hooks :
           /\ hooks[i].url = call.arg.url
           /\ hooks[i].secret # call.arg.secret
           /\ hooks[i].events # register_hook_events(call.arg.events)

\* C5: delete_hook(url) with no hook of that URL returns without raising (the
\* hook listing answered) and issues no DELETE; otherwise a call that returns
\* has issued one DELETE for each hook whose config url is url and for no
\* other, so that exactly the hooks of other URLs and those without a config
\* url remain; and no call, failed or not, removes a hook of another URL.
C5_DeleteHookFrame ==
    [][IsCall("delete_hook") =>
           LET url == call'.arg
               others == SelectSeq(hooks, LAMBDA h : h.url # url)
               mine == {hooks[i].id : i \in {j \in DOMAIN hooks : hooks[j].url = url}}
               deleted == {reqs'[i].tail :
                              i \in {j \in DOMAIN reqs' : reqs'[j].method = "DELETE"}}
           IN  /\ mine = {} =>
                      /\ "DELETE" \notin Methods(reqs')
                      /\ hooks' = hooks
                      /\ call'.raised = None \/ (call'.outage /\ Len(reqs') = 1)
               /\ call'.raised = None =>
                      /\ deleted = mine
                      /\ hooks' = others
                      /\ url \notin hooks_urls(hooks')
               /\ deleted \subseteq mine
               /\ SelectSeq(hooks', LAMBDA h : h.url # url) = others]_vars

C5_Witness ==
    /\ call.op = "delete_hook"
    /\ call.raised = None
    /\ Cardinality({i \in DOMAIN reqs : reqs[i].method = "DELETE"}) = 2
    /\ hooks # <<>>
    /\ call.arg \notin hooks_urls(hooks)

C5_WitnessNoHook ==
    /\ call.op = "delete_hook"
    /\ call.raised = None
    /\ Methods(reqs) = {"GET"}
    /\ hooks # <<>>

----------------------------------------------------------------------------
(* Claims about commit listing *)

\* C6: commits returns an empty set when the commit listing fails with status
\* 409; when it fails with another non-2xx status the RuntimeError carrying
\* that status reaches the caller; and in every other operation a request
\* that fails, with 409 as with any other status, raises the RuntimeError
\* carrying its status.
C6_CommitsEmptyRepository ==
    [][/\ IsCall("commits") =>
              LET listing == reqs'[1].status
              IN  /\ listing = 409 => (call'.raised = None /\ call'.ret = {})
                  /\ (~Ok(listing) /\ listing # 409) =>
                         /\ call'.raised = "RuntimeError"
                         /\ call'.status = listing
                         /\ Len(reqs') = 1
       /\ (call'.seq # call.seq /\ call'.op # "commits") =>
              \A i \in DOMAIN reqs' :
                  ~Ok(reqs'[i].status) =>
                      /\ call'.raised = "RuntimeError"
                      /\ call'.status = reqs'[i].status
                      /\ i = Len(reqs')]_vars

C6_Witness ==
    /\ call.op = "commits"
    /\ reqs[1].status = 409
    /\ call.outage
    /\ nCommits > 0
    /\ call.raised = None
    /\ call.ret = {}

----------------------------------------------------------------------------
(* Claims about search *)

\* Whether the step runs _search: the first next() on a generator that
\* search_mrs or search_issues handed back.
RunsSearch == IsCall("next") /\ gen.state = "created"

\* C7: a search given both created_after and created_before, or both
\* updated_after and updated_before, raises an error with no HTTP request
\* issued; a search given an 'after' of one kind and a 'before' of the other
\* kind is accepted: it raises no error of its own and issues the search
\* request with both terms in the query.
C7_SearchFilterConflict ==
    [][RunsSearch =>
           LET f == gen.filters
               conflict == \/ (f.created_after # NoDate /\ f.created_before # NoDate)
                           \/ (f.updated_after # NoDate /\ f.updated_before # NoDate)
               crossed == \/ (f.created_after # NoDate /\ f.updated_before # NoDate)
                          \/ (f.updated_after # NoDate /\ f.created_before # NoDate)
           IN  /\ conflict => (call'.raised \in {"RuntimeError", "TypeError"} /\ reqs' = <<>>)
               /\ (crossed /\ ~conflict) =>
                      /\ Len(reqs') = 1
                      /\ reqs'[1].body.created # <<>>
                      /\ reqs'[1].body.updated # <<>>
                      /\ call'.raised \in {None, "StopIteration"} \/ call'.outage]_vars

\* C8: search_mrs or search_issues called with mutually exclusive filters
\* raises the error in that call itself, and hands back no result sequence.
C8_ConflictRaisedByCall ==
    [][(IsCall("search_mrs") \/ IsCall("search_issues")) =>
           LET f == call'.arg
               conflict == \/ (f.created_after # NoDate /\ f.created_before # NoDate)
                           \/ (f.updated_after # NoDate /\ f.updated_before # NoDate)
           IN  conflict => (call'.raised # None /\ call'.ret # "generator")]_vars

----------------------------------------------------------------------------
(* Claims about GitLab commit statuses *)

StatusNames(listed) == {listed[i].name : i \in DOMAIN listed}

\* The first listed status of a name.
FirstOf(listed, n) ==
    listed[CHOOSE i \in DOMAIN listed :
               /\ listed[i].name = n
               /\ \A j \in 1..(i - 1) : listed[j].name # n]

\* C9: the result of get_statuses holds exactly one CommitStatus per distinct
\* name among the statuses the provider lists, built from the first listed
\* status of that name; later statuses of a name already seen are dropped.
\* The call returns whenever the listing answered and those first statuses
\* carry states of the translation table.
C9_StatusesFirstPerName ==
    [][IsCall("get_statuses") =>
           LET names == StatusNames(statuses)
               mapped == \A n \in names :
                             FirstOf(statuses, n).status \in DOMAIN INV_GL_STATE_TRANSLATION
           IN  /\ (mapped /\ ~call'.outage) => call'.raised = None
               /\ call'.raised = None =>
                      /\ Cardinality(call'.ret) = Cardinality(names)
                      /\ \A n \in names :
                             LET first == FirstOf(statuses, n)
                             IN  {r \in call'.ret : r.context = n} =
                                     {CommitStatus(INV_GL_STATE_TRANSLATION[first.status],
                                                   first.description, n, first.target_url)}]_vars

C9_Witness ==
    /\ call.op = "get_statuses"
    /\ call.raised = None
    /\ Len(statuses) = 4
    /\ Cardinality({i \in DOMAIN statuses : statuses[i].name = "n1"}) = 3
    /\ Cardinality(call.ret) = 2

\* C10: after a set_status(s) that succeeds, a get_statuses that returns holds
\* exactly one status of context s.context, with the state and description of
\* s, whichever statuses of that context were listed before; the listed
\* statuses of other contexts are as they were.
C10_SetStatusOverwrites ==
    [][/\ (IsCall("set_status") /\ call'.raised = None) =>
              LET other(x) == x.name # call'.arg.context
              IN  SelectSeq(statuses', other) = SelectSeq(statuses, other)
       /\ (/\ call.op = "set_status" /\ call.raised = None
           /\ IsCall("get_statuses") /\ call'.raised = None) =>
              LET s == call.arg
              IN  {r \in call'.ret : r.context = s.context} =
                      {CommitStatus(s.status, s.description, s.context, s.url)}]_vars

C10_Witness ==
    /\ call.op = "get_statuses"
    /\ call.raised = None
    /\ Len(statuses) > 2
    /\ statuses[1].name = statuses[2].name
    /\ statuses[1].status # statuses[2].status
    /\ statuses[1].description # statuses[2].description
    /\ statuses[1].status = "success"
    /\ CommitStatus("SUCCESS", statuses[1].description, statuses[1].name, None) \in call.ret
    /\ Cardinality(call.ret) = 2

----------------------------------------------------------------------------
(* Claims about GitLab commit comments and patches *)

\* The listed diff entries that have filename as their new or old path.
EntriesOf(listed, filename) ==
    {i \in DOMAIN listed :
        listed[i].new_path = filename \/ listed[i].old_path = filename}

FirstEntryOf(listed, filename) ==
    listed[CHOOSE i \in EntriesOf(listed, filename) :
               \A j \in EntriesOf(listed, filename) : i <= j]

\* The diff shows the line of the file: the file's first entry has it.
Shown(listed, filename, line) ==
    /\ EntriesOf(listed, filename) # {}
    /\ \E i \in DOMAIN FirstEntryOf(listed, filename).diff :
           FirstEntryOf(listed, filename).diff[i] = line[1]

Posts(rs) == SelectSeq(rs, LAMBDA r : r.method = "POST")

\* The context header of a comment on file and line, and the message.
Prefixed(c, arg) ==
    <<"Comment on ", IF c.sha # None THEN c.sha ELSE FullSha, ", file ", arg.file,
      ", line ", IF arg.line = <<4>> THEN "4" ELSE "8", ".\n\n", arg.message>>

\* C11: comment with a file and a line posts at most one comment, and exactly
\* one when it returns, which it does unless an exchange fails. When the file
\* is absent from the commit's diff or the diff does not show the line, the
\* comment carries no line and no path and its note is the message after a
\* header naming the commit's SHA, the file and the line; when the diff shows
\* the line, the comment carries line and path and the message as it was given.
C11_CommentFallback ==
    [][(IsCall("comment") /\ call'.arg.file # None /\ call'.arg.line # NoInt) =>
           LET arg == call'.arg
               posts == Posts(reqs')
           IN  /\ Len(posts) <= 1
               /\ call'.raised = None => Len(posts) = 1
               /\ call'.raised # None => (call'.raised = "RuntimeError" /\ call'.outage)
               /\ \A i \in DOMAIN posts :
                      IF Shown(diff, arg.file, arg.line)
                      THEN /\ {"line", "path"} \subseteq DOMAIN posts[i].body
                           /\ posts[i].body.path = arg.file
                           /\ posts[i].body.line > 0
                           /\ posts[i].body.note = <<arg.message>>
                      ELSE /\ {"line", "path"} \cap DOMAIN posts[i].body = {}
                           /\ posts[i].body.note = Prefixed(commit, arg)]_vars

C11_Witness ==
    /\ call.op = "comment"
    /\ call.raised = None
    /\ call.arg.file = "README.md"
    /\ call.arg.line = <<8>>
    /\ EntriesOf(diff, "README.md") # {}
    /\ ~Shown(diff, "README.md", <<8>>)
    /\ Len(Posts(reqs)) = 1
    /\ "line" \notin DOMAIN Posts(reqs)[1].body
    /\ Len(Posts(reqs)[1].body.note) = 8

\* C12: comment issues exactly one POST, and none only when a GET before it
\* failed. With no mr_number the POST goes to the comments endpoint of the
\* commit; with an mr_number it goes to the notes endpoint of that merge
\* request, and its body field is the note, which ends in the message.
C12_CommentRouting ==
    [][IsCall("comment") =>
           LET arg == call'.arg
               posts == Posts(reqs')
           IN  /\ \/ Len(posts) = 1 /\ reqs'[Len(reqs')].method = "POST"
                  \/ /\ posts = <<>>
                     /\ call'.raised = "RuntimeError"
                     /\ call'.outage
                     /\ reqs' # <<>>
                     /\ ~Ok(reqs'[Len(reqs')].status)
               /\ \A i \in DOMAIN posts :
                      IF arg.mr_number = NoInt
                      THEN /\ posts[i].res = "commits/comments"
                           /\ posts[i].tail = commit.url
                      ELSE /\ posts[i].res = "merge_requests/notes"
                           /\ posts[i].tail = arg.mr_number[1]
                           /\ "body" \in DOMAIN posts[i].body
                           /\ posts[i].body.body = posts[i].body.note
                           /\ posts[i].body.body[Len(posts[i].body.body)] = arg.message]_vars

C12_Witness ==
    /\ call.op = "comment"
    /\ call.raised = None
    /\ call.arg.mr_number = <<7>>
    /\ call.arg.file = "README.md"
    /\ diff = <<>>
    /\ call.arg.line # NoInt
    /\ Len(reqs) = 2
    /\ reqs[2].res = "merge_requests/notes"
    /\ Len(reqs[2].body.body) > 1

\* C13: get_patch_for_file(filename) returns the diff text of the first
\* listed entry that has filename as its new_path or its old_path, and raises
\* ElementDoesntExistError when no entry has, the empty diff included; the
\* only other outcome is the RuntimeError of a diff listing that failed.
C13_PatchForFile ==
    [][IsCall("get_patch_for_file") =>
           LET filename == call'.arg
           IN  IF call'.outage THEN call'.raised = "RuntimeError"
               ELSE IF EntriesOf(diff, filename) = {}
               THEN call'.raised = "ElementDoesntExistError"
               ELSE /\ call'.raised = None
                    /\ call'.ret = FirstEntryOf(diff, filename).diff]_vars

C13_Witness ==
    /\ call.op = "get_patch_for_file"
    /\ call.raised = None
    /\ call.arg = "README.md"
    /\ Cardinality(EntriesOf(diff, "README.md")) = 2
    /\ diff[1].old_path # "README.md"
    /\ call.ret = <<7, 8>>

C13_WitnessRenamed ==
    /\ call.op = "get_patch_for_file"
    /\ call.raised = None
    /\ call.arg = "OLD.md"
    /\ call.ret = <<>>

----------------------------------------------------------------------------
(* Claims about the enum translation tables *)

Injective(f) == \A a, b \in DOMAIN f : f[a] = f[b] => a = b

\* The events a register_hook call posted, had it posted any.
PostedEvents(rs) == {rs[i].body.events : i \in {j \in DOMAIN rs : rs[j].method = "POST"}}

----------------------------------------------------------------------------
(* Claims about repository addressing *)

\* The constructor arguments of the model that read as the integer 7.
IntegerArgs == {<<"7">>, <<"0", "7">>, <<" ", "7">>}

\* C15: GitHubRepository built with a value that parses as an integer is
\* addressed at /repositories/<id>, built with any other string at
\* /repos/<string>. full_name of a name-addressed repository is that string
\* and issues no request; full_name of an id-addressed repository is the full
\* name the hosting service has for it, taken from the object's data, which a
\* GET of the repository's URL loads when the object has none yet.
C15_Addressing ==
    [][/\ IsCall("__init__") =>
              IF call'.arg \in IntegerArgs
              THEN repo'.url = <<"/repositories/", <<"7">>>>
              ELSE repo'.url = <<"/repos/", call'.arg>>
       /\ (IsCall("full_name") /\ repo.url[1] = "/repos/") =>
              /\ reqs' = <<>>
              /\ call'.raised = None
              /\ call'.ret = repo.url[2]
       /\ (IsCall("full_name") /\ repo.url[1] = "/repositories/") =>
              /\ call'.raised = None \/ call'.outage
              /\ call'.raised = None => call'.ret = ServiceFullName
              /\ data = "unloaded" =>
                     /\ Len(reqs') = 1
                     /\ reqs'[1].method = "GET"
                     /\ reqs'[1].tail = repo.url
              /\ data # "unloaded" => reqs' = <<>>]_vars

----------------------------------------------------------------------------
(* Claims about search results *)

\* C16: a search with filters that do not conflict issues the search request
\* at the first next() and no request after it; it yields one entity per item
\* of the response, in the order of the response, each with the item's number
\* and with the item as its data, and ends after the last item.
C16_SearchHydration ==
    [][IsCall("next") =>
           LET response == Items(nOpen[gen.type])
               f == gen.filters
               conflict == \/ (f.created_after # NoDate /\ f.created_before # NoDate)
                           \/ (f.updated_after # NoDate /\ f.updated_before # NoDate)
               k == Len(response) - Len(gen'.items)
           IN  /\ (gen.state = "created" /\ ~conflict) =>
                      /\ Len(reqs') = 1
                      /\ reqs'[1].res = "search/issues"
                      /\ call'.raised \in {None, "StopIteration"} \/ call'.outage
               /\ gen.state # "created" => reqs' = <<>>
               /\ call'.raised = None =>
                      /\ k \in DOMAIN response
                      /\ call'.ret.data = response[k]
                      /\ call'.ret.number = response[k].number
                      /\ gen.state = "suspended" => Len(gen'.items) = Len(gen.items) - 1
               /\ call'.raised = "StopIteration" =>
                      (gen.state = "suspended" => gen.items = <<>>)]_vars

----------------------------------------------------------------------------
(* Claims about the URLs of GitLab commit statuses *)

\* C17: whichever way the GitLabCommit was built, with the full SHA, with a
\* short SHA or with a branch only, the status requests of get_statuses and
\* set_status name the commit by its full SHA, and a call that needs no data
\* load issues the status request alone.
C17_StatusesByFullSha ==
    [][(IsCall("get_statuses") \/ IsCall("set_status")) =>
           /\ \A i \in DOMAIN reqs' :
                  reqs'[i].res = "statuses" => reqs'[i].tail = FullSha
           /\ \A i \in DOMAIN reqs' :
                  reqs'[i].res # "statuses" =>
                      /\ commit.sha = None
                      /\ reqs'[i].method = "GET"
                      /\ reqs'[i].tail = commit.url]_vars

----------------------------------------------------------------------------
(* Claims about the access layer *)

\* The items of pages k to n of resource r, in page order.
RECURSIVE PagesFrom(_, _, _)
PagesFrom(r, k, n) ==
    IF k > n THEN <<>> ELSE PageItems(r, k) \o PagesFrom(r, k + 1, n)

\* An exchange that was answered: with the page, or from the cache.
Answered(r) == Ok(r.status) \/ r.status = 304

\* C18: a fetch of a list that the hosting service serves as N pages requests
\* page 1, then the page after each page it was answered, and none after a
\* page that was not answered or that is the last; a fetch that returns has
\* issued exactly N requests and returns the items of pages 1 to N, in page
\* order.
C18_Pagination ==
    [][(IsCall("_fetch") /\ call'.arg = IssuesPath) =>
           LET r == remote[IssuesPath]
               n == Len(reqs')
           IN  /\ n \in 1..r.pages
               /\ \A i \in 1..n :
                      /\ reqs'[i].method = "GET"
                      /\ reqs'[i].res = IssuesPath
                      /\ reqs'[i].tail = i
                      /\ i < n => Answered(reqs'[i])
               /\ IF Answered(reqs'[n])
                  THEN /\ call'.raised = None
                       /\ n = r.pages
                       /\ call'.ret = PagesFrom(r, 1, r.pages)
                  ELSE call'.raised = "RuntimeError"]_vars

C18_Witness ==
    /\ call.op = "_fetch"
    /\ call.arg = IssuesPath
    /\ call.raised = None
    /\ remote[IssuesPath].pages = 3
    /\ Len(reqs) = 3
    /\ Len(call.ret) = 6
    /\ call.ret[5].id = 5

\* C19: a refresh of an entity whose resource is as the cache entry of its
\* URL has it sends one conditional GET that is answered not-modified, and
\* unless that exchange fails it leaves the cache entry, the rate-limit
\* counter recorded in it included, and the quota as they were and yields the
\* data the cached body decodes to, which after a refresh is the data that
\* refresh yielded; a refresh answered with a new body replaces the entry by
\* that response.
C19_ConditionalCaching ==
    [][IsCall("refresh") =>
           LET url == <<repo.url, 1>>
               unchanged == /\ url \in DOMAIN cache
                            /\ cache[url].etag = remote[repo.url].version
           IN  /\ (unchanged /\ ~call'.outage) =>
                      /\ Len(reqs') = 1
                      /\ reqs'[1].status = 304
                      /\ call'.raised = None
                      /\ cache' = cache
                      /\ cache'[url].remaining = cache[url].remaining
                      /\ quota' = quota
                      /\ call'.ret = decode(cache[url].text)
                      /\ (call.op = "refresh" /\ call.raised = None) => call'.ret = call.ret
               /\ Ok(reqs'[1].status) =>
                      /\ ~unchanged
                      /\ cache'[url].etag = remote[repo.url].version
                      /\ cache'[url].text = reqs'[1].text
                      /\ cache'[url].remaining = quota'
                      /\ quota' = quota - 1
                      /\ call'.ret = decode(reqs'[1].text)]_vars

C19_Witness ==
    /\ call.op = "refresh"
    /\ call.raised = None
    /\ Len(reqs) = 1
    /\ reqs[1].status = 304
    /\ remote[RepoPath].version = 2
    /\ cache[<<RepoPath, 1>>].etag = 2
    /\ cache[<<RepoPath, 1>>].remaining > quota

\* The cache entry of an exchange's URL is as it was before the call.
EntryKept(r) ==
    LET url == <<r.res, r.tail>>
    IN  /\ url \in DOMAIN cache' <=> url \in DOMAIN cache
        /\ url \in DOMAIN cache => cache'[url] = cache[url]

\* C20 as the specification has it: every request of a fetch that ends in a
\* non-2xx status makes the fetch raise RuntimeError with the raw response
\* body and the status as its arguments, is the last request of the fetch,
\* and leaves the cache entry of its URL as it was.
C20_NonSuccessRaises ==
    [][(IsCall("_fetch") \/ IsCall("refresh")) =>
           \A i \in DOMAIN reqs' :
               ~Ok(reqs'[i].status) =>
                   /\ call'.raised = "RuntimeError"
                   /\ call'.ret = reqs'[i].text
                   /\ call'.status = reqs'[i].status
                   /\ i = Len(reqs')
                   /\ EntryKept(reqs'[i])]_vars

\* C20 amended: every request of a fetch that ends in a non-2xx status other
\* than the not-modified answer (304) to a conditional GET makes the fetch
\* raise RuntimeError with the raw response body and the status as its
\* arguments, is the last request of the fetch, and leaves the cache entry of
\* its URL as it was; a request answered 304 raises nothing and also leaves
\* the entry as it was, and a fetch none of whose requests so fails returns.
C20_FailureRaises ==
    [][(IsCall("_fetch") \/ IsCall("refresh")) =>
           /\ \A i \in DOMAIN reqs' :
                  IF reqs'[i].status = 304 THEN EntryKept(reqs'[i])
                  ELSE ~Ok(reqs'[i].status) =>
                           /\ call'.raised = "RuntimeError"
                           /\ call'.ret = reqs'[i].text
                           /\ call'.status = reqs'[i].status
                           /\ i = Len(reqs')
                           /\ EntryKept(reqs'[i])
           /\ (\A i \in DOMAIN reqs' : Answered(reqs'[i])) => call'.raised = None]_vars

C20_Witness ==
    /\ call.op = "_fetch"
    /\ call.arg = MissingPath
    /\ call.raised = "RuntimeError"
    /\ call.status = 404
    /\ call.ret = Text("Not Found")
    /\ Len(reqs) = 1
    /\ <<MissingPath, 1>> \notin DOMAIN cache
    /\ cache # NoCache

----------------------------------------------------------------------------
(* Claims about merge request state transitions *)

\* The state the last transition that returned on the object leads to.
StateAfter(done) == IF done[Len(done)] = "close" THEN "closed" ELSE "open"

\* C21: once close() has returned on a merge request object, state read on
\* that object is 'closed', and once a following reopen() has returned it is
\* 'open', whatever transitions came before; the read returns the cached data
\* and issues no request.
C21_StateAfterTransition ==
    [][(IsCall("state") /\ mr.done # <<>>) =>
           /\ call'.raised = None
           /\ call'.ret = StateAfter(mr.done)
           /\ reqs' = <<>>]_vars

\* state read 'open' after close() and then reopen() returned, although
\* another client has closed the merge request since.
C21_Witness ==
    /\ call.op = "state"
    /\ mr.done = <<"close", "reopen">>
    /\ call.ret = "open"
    /\ reqs = <<>>
    /\ mr.state = "closed"

----------------------------------------------------------------------------
(* Claims about the repository's data snapshot *)

\* The clone URL of the repository with the token embedded.
OwnCloneUrl ==
    <<"https://", TokenValue, "@", "github.com", "/">> \o ServiceFullName \o <<".git">>

\* The step is a call of op that no transport failure ended.
Completes(op) == IsCall(op) /\ ~call'.outage

\* C22: the repository object's data snapshot is always unloaded or the
\* repository's own payload, and whatever label and hook operations were called
\* before, identifier, full_name and clone_url return the repository's own id,
\* full name and clone URL.
C22_SnapshotIsRepository ==
    [][/\ data' \in {"unloaded", "repo"}
       /\ Completes("identifier") => (call'.raised = None /\ call'.ret = ServiceId)
       /\ Completes("full_name") => (call'.raised = None /\ call'.ret = ServiceFullName)
       /\ Completes("clone_url") => (call'.raised = None /\ call'.ret = OwnCloneUrl)]_vars

----------------------------------------------------------------------------
(* Claims about the two addressing forms *)

\* C23: on a repository object built from the numeric id as on one built from
\* 'owner/name', top_level_org returns the owner's organization, create_file
\* returns a content object addressed under the repository's full name, and a
\* search with filters that do not conflict issues its one search request and
\* yields entities of that repository.
C23_AddressingEquivalence ==
    [][/\ IsCall("top_level_org") =>
              (call'.raised = None /\ call'.ret = split_first(ServiceFullName, "/"))
       /\ Completes("create_file") =>
              /\ call'.raised = None
              /\ call'.ret = GitHubContent(ServiceFullName, call'.arg)
       /\ (Completes("next") /\ gen.state = "created" /\ ~search_conflict(gen.filters)) =>
              /\ Len(reqs') = 1
              /\ reqs'[1].body = search_query(gen.type, gen.filters)
              /\ call'.raised \in {None, "StopIteration"}
              /\ call'.raised = None => call'.ret.repository = ServiceFullName]_vars

----------------------------------------------------------------------------
(* Claims about interleaved callers *)

\* The POST requests a caller's call has issued.
PostsOf(p) == Cardinality({i \in DOMAIN p.reqs : p.reqs[i].method = "POST"})

\* Both callers have run op to its end, and the hosting service answered every
\* request from its state (2xx, or 422 for a label that exists).
BothEnded(op) ==
    \A c \in Callers :
        /\ procs[c].pc = "done"
        /\ procs[c].op = op
        /\ \A i \in DOMAIN procs[c].reqs :
               Ok(procs[c].reqs[i].status) \/ procs[c].reqs[i].status = 422

\* C24: when two callers have run register_hook for the same url with their
\* requests interleaved, at most one hook record for that url exists; when two
\* callers have run create_label for the same name, at most one of them has
\* issued the label-creating POST.
C24_CheckThenActAtomic ==
    /\ (BothEnded("register_hook") /\ procs[1].arg = procs[2].arg) =>
           CountUrl(hooks, procs[1].arg) <= 1
    /\ (BothEnded("create_label") /\ procs[1].arg = procs[2].arg) =>
           PostsOf(procs[1]) + PostsOf(procs[2]) <= 1

====
